---- MODULE Spec2Model ----
(***************************************************************************)
(* State-machine model of the USD -> Arnold scene translator              *)
(* (UsdArnoldReader, UsdArnoldReaderThreadContext, UsdArnoldReaderContext) *)
(* of translator/reader.  One controlling thread calls the reader's API;   *)
(* ReadStage fans out traversal workers, joins them, fans out connection   *)
(* workers, joins them and drains the dangling connections on its own.     *)
(***************************************************************************)
EXTENDS Integers, Sequences, FiniteSets, TLC

\* ------------------------------------------------------------------------
\* Bounds of the model
\* ------------------------------------------------------------------------
MaxThreads == 2

MaxCalls == 3

\* The number of API calls when a stage is read again with another thread count
MaxRereadCalls == 4

MaxDepth == 4

\* The latest time at which the transform given to ReadMatrix has a sample
MaxSample == 3

\* ------------------------------------------------------------------------
\* Values
\* ------------------------------------------------------------------------
Null == 0

NullPtr == "nullptr"

NoParent == "none"

ProcNode == "proc"

EmptyMap == [x \in {} |-> 0]

AI_NODE_ALL == {"options", "camera", "light", "shape", "shader", "operator", "driver", "filter"}

ProcMask == {"camera", "light", "shape", "shader", "operator"}

Top(s) == s[Len(s)]

SetTop(s, v) == [s EXCEPT ![Len(s)] = v]

\* ------------------------------------------------------------------------
\* The document (the USD stage).  Eight elements at fixed places of the
\* hierarchy; a document says which of them it holds and what is authored
\* on them.  Element 0 is the pseudo-root.
\*   1 /World            Xform
\*   2 /World/mesh       Mesh, bound to a material, or with face subsets
\*   3 /World/mat        Arnold shader
\*   4 /World/mat/tex    Arnold shader, child of 3
\*   5 /World/inst       instanceable Xform, instance of prototype 6
\*   6 /__Prototype_1    prototype root (never under the pseudo-root range)
\*   7 /Off              inactive element
\*   8 /World/inst2      instanceable Xform, second instance of prototype 6
\* ------------------------------------------------------------------------
Prims == 1..8

Path(p) ==
    CASE p = 1 -> "/World"
      [] p = 2 -> "/World/mesh"
      [] p = 3 -> "/World/mat"
      [] p = 4 -> "/World/mat/tex"
      [] p = 5 -> "/World/inst"
      [] p = 6 -> "/__Prototype_1"
      [] p = 7 -> "/Off"
      [] p = 8 -> "/World/inst2"
      [] OTHER -> "/"

Parent(p) ==
    CASE p \in {2, 3, 5, 8} -> 1
      [] p = 4 -> 3
      [] OTHER -> 0

TypeName(p) ==
    CASE p \in {1, 5, 8} -> "Xform"
      [] p = 2 -> "Mesh"
      [] p = 3 -> "ArnoldStandardSurface"
      [] p = 4 -> "ArnoldImage"
      [] p = 7 -> "Mesh"
      [] OTHER -> ""

IsInstanceable(p) == p \in {5, 8}

IsPrototype(p) == p = 6

GetPrototype(p) == IF p \in {5, 8} THEN 6 ELSE 0

IsActive(p) == p # 7

\* prim.IsA<UsdGeomImageable>() || objType.substr(0, 6) == "Arnold"
IsImageableOrArnold(p) == p \in {1, 2, 3, 4, 5, 7, 8}

\* The documents the reads are given.
\*   present   the elements the document holds
\*   pruned    elements authored invisible or with an unaccepted purpose
\*   shader    the surface shader bound to the mesh ("" when none is bound)
\*   subsets   the shaders of the mesh's face subsets (<<>>: no subsets)
\*   matInput  the element linked to the input of shader 3 ("" when none,
\*             ExplicitNull when the input is authored with a null target)
\*   texInput  the element linked to the input of shader 4 ("" when none)
\*   reg       elements whose converter registers its node under the path
\*   camera    shutter <<open, close>> of the camera /options names, or <<>>
\*   unassigned  some faces of the mesh are in no face subset
Docs ==
    { [present |-> {1, 2, 3, 4}, pruned |-> {}, shader |-> "/World/mat", subsets |-> <<>>,
       matInput |-> "/World/mat/tex", texInput |-> "", reg |-> {3}, camera |-> <<>>, unassigned |-> FALSE],
      [present |-> {1, 2, 3, 4}, pruned |-> {3}, shader |-> "/World/mat", subsets |-> <<>>,
       matInput |-> "/World/mat/tex", texInput |-> "/World/mat", reg |-> {}, camera |-> <<0, 1>>, unassigned |-> FALSE],
      [present |-> {1, 2, 3}, pruned |-> {3}, shader |-> "/World/mat", subsets |-> <<>>,
       matInput |-> "/missing", texInput |-> "", reg |-> {3}, camera |-> <<>>, unassigned |-> FALSE],
      [present |-> {1, 2, 5, 6, 7}, pruned |-> {}, shader |-> "", subsets |-> <<>>,
       matInput |-> "", texInput |-> "", reg |-> {}, camera |-> <<>>, unassigned |-> FALSE] }

\* An input authored with an explicitly null target: the connection that the
\* converter registers for it has the empty string as target.
ExplicitNull == "<null>"

LinkTarget(input) == IF input = ExplicitNull THEN "" ELSE input

\* Documents whose mesh has face subsets, each bound to a shader ("" when
\* none is bound), and a document with two instances of one prototype.
ArrayDocs ==
    { [present |-> {1, 2, 3, 4}, pruned |-> {4}, shader |-> "",
       subsets |-> <<"/World/mat/tex", "/World/mat", "/missing">>,
       matInput |-> "", texInput |-> "", reg |-> {}, camera |-> <<>>, unassigned |-> FALSE],
      [present |-> {1, 2, 3, 4}, pruned |-> {4}, shader |-> "",
       subsets |-> <<"/World/mat/tex", "/World/mat">>,
       matInput |-> "", texInput |-> "", reg |-> {}, camera |-> <<>>, unassigned |-> FALSE],
      [present |-> {1, 2, 3}, pruned |-> {}, shader |-> "",
       subsets |-> <<"/World/mat", "">>,
       matInput |-> ExplicitNull, texInput |-> "", reg |-> {}, camera |-> <<>>, unassigned |-> TRUE],
      [present |-> {1, 2, 3, 4}, pruned |-> {4}, shader |-> "",
       subsets |-> <<"/World/mat/tex", "/World/mat">>,
       matInput |-> "/World/mat/tex", texInput |-> "", reg |-> {}, camera |-> <<>>, unassigned |-> FALSE],
      [present |-> {1, 5, 6, 8}, pruned |-> {}, shader |-> "",
       subsets |-> <<>>,
       matInput |-> "", texInput |-> "", reg |-> {}, camera |-> <<>>, unassigned |-> FALSE] }

\* Primvars authored on an element (names only; a name authored lower in the
\* hierarchy overrides the same name inherited from above).
Authored(p) ==
    CASE p = 1 -> {"w"}
      [] p = 4 -> {"t"}
      [] OTHER -> {}

\* ------------------------------------------------------------------------
\* State
\* ------------------------------------------------------------------------
VARIABLES
    doc,            \* the document behind the file name / cache id
    pc,             \* where the controlling thread is: "idle" or inside ReadStage
    jn,             \* ReadStage: number of workers already joined in the current loop
    nodes,          \* UsdArnoldReader::_nodes
    nodeNames,      \* UsdArnoldReader::_nodeNames
    readStep,       \* UsdArnoldReader::_readStep
    time,           \* UsdArnoldReader::_time
    filename,       \* UsdArnoldReader::_filename
    overrides,      \* UsdArnoldReader::_overrides
    stage,          \* UsdArnoldReader::_stage
    threadCount,    \* UsdArnoldReader::_threadCount
    dispatcher,     \* UsdArnoldReader::_dispatcher (TRUE: a WorkDispatcher exists)
    debug,          \* UsdArnoldReader::_debug
    convert,        \* UsdArnoldReader::_convert
    procParent,     \* UsdArnoldReader::_procParent
    mask,           \* UsdArnoldReader::_mask
    defaultShader,  \* UsdArnoldReader::_defaultShader
    ai,             \* the Arnold universe: the live nodes, by identity
    links,          \* parameter values of the live nodes that hold node references
    nextId,         \* identity of the next node AiNode creates
    td,             \* ReadStage: std::vector<UsdThreadData> threadData
    jobs,           \* jobs handed to the WorkDispatcher and not yet run
    dangling,       \* ReadStage: danglingConnections
    dpos,           \* ReadStage: position of the dangling loop
    root,           \* ReadStage: rootPrimPtr (0: the pseudo-root)
    readKind,       \* which Read overload is running ReadStage
    calls,          \* number of API calls made so far
    lastCall,       \* the last API call and its arguments
    forced,         \* ReadPrimitive calls made by the dangling pass of this read
    applied,        \* connections ProcessConnection has applied in this read, with
                    \* n, the ordinal of the application of that connection
    registered,     \* connections AddConnection has deferred in this read
    cur,            \* settings the current read started with
    tick,           \* flips at every step the threads of a read take
    hist,           \* outcome of every read that reached FINISHED
    registry,       \* UsdArnoldReader::_registry (TRUE: set)
    readerLock,     \* UsdArnoldReader::_readerLock (TRUE: initialised)
    locked,         \* the locks entered since the last Read was called
    mx,             \* a call of ReadMatrix: its arguments and what it returned
    budget          \* the number of API calls the reader's user makes at most

vars == <<doc, pc, jn, nodes, nodeNames, readStep, time, filename, overrides, stage,
          threadCount, dispatcher, debug, convert, procParent, mask, defaultShader,
          ai, links, nextId, td, jobs, dangling, dpos, root, readKind, calls, lastCall,
          forced, applied, registered, cur, tick, hist, registry, readerLock, locked, mx, budget>>

\* ------------------------------------------------------------------------
\* The stage
\* ------------------------------------------------------------------------
\* The elements of the open stage: the document's, or none for a stage made
\* of the override layers alone.
PrimsOf(st) == IF st = "doc" THEN doc.present ELSE {}

StagePrims == PrimsOf(stage)

\* UsdStage::GetPrimAtPath on stage st; 0 is the invalid prim.
PrimAtPathIn(st, name) ==
    IF \E p \in PrimsOf(st) : Path(p) = name
    THEN CHOOSE p \in PrimsOf(st) : Path(p) = name
    ELSE 0

GetPrimAtPath(name) == PrimAtPathIn(stage, name)

\* Children a UsdPrimRange descends into: active, not a prototype, and not
\* below an instance.
Children(p) ==
    SelectSeq(<<1, 2, 3, 4, 5, 6, 7, 8>>,
              LAMBDA c : c \in StagePrims /\ Parent(c) = p /\ IsActive(c) /\ ~IsPrototype(c)
                         /\ ~IsInstanceable(p))

RECURSIVE PreAndPostVisit(_), VisitAll(_)

PreAndPostVisit(p) ==
    <<[prim |-> p, post |-> FALSE]>> \o VisitAll(Children(p)) \o <<[prim |-> p, post |-> TRUE]>>

VisitAll(s) == IF s = <<>> THEN <<>> ELSE PreAndPostVisit(Head(s)) \o VisitAll(Tail(s))

\* Index of the post-visit of the element pre-visited at position i.
PostIndex(range, i) ==
    CHOOSE j \in (i + 1)..Len(range) : range[j].prim = range[i].prim /\ range[j].post

\* visibility == invisible, or purpose neither default nor the reader's purpose
PruneChildren(p) == IsImageableOrArnold(p) /\ p \in doc.pruned

FindIncrementallyInheritablePrimvars(p, inherited) ==
    IF Authored(p) = {} THEN {} ELSE inherited \cup Authored(p)

RECURSIVE FindPrimvarsWithInheritance(_)

FindPrimvarsWithInheritance(p) ==
    IF p = 0 THEN {} ELSE Authored(p) \cup FindPrimvarsWithInheritance(Parent(p))

\* UsdArnoldReaderRegistry::GetPrimReader: the node class of the converter
\* registered for a type name, "" when there is none.
GetPrimReader(type) ==
    CASE type = "Mesh" -> "shape"
      [] type \in {"ArnoldStandardSurface", "ArnoldImage"} -> "shader"
      [] OTHER -> ""

ArnoldType(p) ==
    CASE TypeName(p) = "Mesh" -> "polymesh"
      [] TypeName(p) = "ArnoldStandardSurface" -> "standard_surface"
      [] TypeName(p) = "ArnoldImage" -> "image"
      [] OTHER -> ""

\* ------------------------------------------------------------------------
\* Code that runs on a thread context.  It is written over a record m that
\* holds what such code can change:
\*   ai, links, nextId   the Arnold universe
\*   rnodes, dsh         the reader's _nodes and _defaultShader
\*   t                   the thread context (nodes, names, conns, pstack, disp,
\*                       held, maxHeld)
\*   jobs                jobs submitted to the dispatcher
\*   forced, applied, registered   the records kept of this read
\*   pick                which node a name shared by several nodes looks up
\*   ok                  FALSE once the nesting of forced conversions passed MaxDepth
\* ------------------------------------------------------------------------
\* if (lock) AiCritSecEnter(&lock) on one of the locks of the thread context,
\* which exist when the context was given a dispatcher: the lock is held
\* from here on; maxHeld is the largest number of the context's locks ever
\* held together.
AiCritSecEnter(m, lock) ==
    IF m.t.disp
    THEN [m EXCEPT !.t.held = @ \cup {lock},
                   !.t.maxHeld = IF Cardinality(m.t.held \cup {lock}) > @
                                 THEN Cardinality(m.t.held \cup {lock}) ELSE @,
                   !.locked = @ \cup {lock}]
    ELSE m

\* An AiCritSecLeave that leaves the lock held
AiCritSecLeave_KeepsLock(m, lock) == m

\* if (lock) AiCritSecLeave(&lock)
AiCritSecLeave(m, lock) == IF m.t.disp THEN [m EXCEPT !.t.held = @ \ {lock}] ELSE m

\* AiNode(universe, type, name, procParent); params is the record of the
\* parameters set on a nested procedural (<<>> on other nodes), held is the set of the context's
\* locks held at the call, listed the set held when the node was pushed on
\* the context's node list.
AiNode(m, type, name, p, pv, by) ==
    [m EXCEPT !.ai = @ @@ (m.nextId :> [name |-> name, type |-> type, parent |-> procParent,
                                        prim |-> p, pv |-> pv, step |-> readStep, by |-> by,
                                        via |-> m.via, held |-> m.t.held, listed |-> {},
                                        params |-> <<>>]),
              !.nextId = @ + 1]

\* _nodes.push_back(node) for the node AiNode has just created
PushNode(m) ==
    [m EXCEPT !.t.nodes = Append(@, m.nextId - 1), !.ai[m.nextId - 1].listed = m.t.held]

\* A CreateArnoldNode that never enters the creation lock
CreateArnoldNode_Unlocked(m, type, name, p, pv, by) ==
    [AiNode(m, type, name, p, pv, by) EXCEPT !.t.nodes = Append(@, m.nextId)]

\* UsdArnoldReaderThreadContext::CreateArnoldNode: the node is created, then
\* pushed on the context's list under the context's creation lock, which
\* exists when the context was given a dispatcher.
CreateArnoldNode(m, type, name, p, pv, by) ==
    AiCritSecLeave(PushNode(AiCritSecEnter(AiNode(m, type, name, p, pv, by), "createNode")),
                   "createNode")

\* UsdArnoldReaderThreadContext::AddNodeName
AddNodeName(m, name, node) ==
    AiCritSecLeave(
        [AiCritSecEnter(m, "addNodeName") EXCEPT
            !.t.names = [n \in DOMAIN @ \cup {name} |-> IF n = name THEN node ELSE @[n]]],
        "addNodeName")

\* AiNodeLookUpByName(universe, name, procParent): the name is looked up in
\* the scope of the procedural and in the scope around it; of several nodes
\* of that name either the oldest or the newest is found.
AiNodeLookUpByName(m, name) ==
    LET c == {id \in DOMAIN m.ai : m.ai[id].name = name /\ m.ai[id].parent \in {procParent, NoParent}}
    IN  IF c = {} THEN Null
        ELSE IF m.pick = "old" THEN CHOOSE id \in c : \A o \in c : id <= o
        ELSE CHOOSE id \in c : \A o \in c : id >= o

\* LookupNode that finds no node
LookupNode_NeverFinds(m, name, checkParent) == Null

\* LookupNode that only consults the names the converters registered
LookupNode_RegisteredOnly(m, name, checkParent) ==
    IF name \in DOMAIN nodeNames THEN nodeNames[name] ELSE Null

\* LookupNode that does not find nested procedurals
LookupNode_MissesProcedurals(m, name, checkParent) ==
    LET node == AiNodeLookUpByName(m, name)
    IN  IF name \in DOMAIN nodeNames THEN nodeNames[name]
        ELSE IF node # Null /\ m.ai[node].type = "usd" THEN Null
        ELSE node

LookupNode(m, name, checkParent) ==
    IF name \in DOMAIN nodeNames THEN nodeNames[name]
    ELSE LET node == AiNodeLookUpByName(m, name)
         IN  IF checkParent /\ node # Null /\ m.ai[node].parent # NoParent
                /\ m.ai[node].parent # procParent
             THEN Null
             ELSE node

\* AiNodeSetPtr / AiNodeSetArray / AiNodeLink / AiNodeLinkOutput / AiNodeUnlink
AiNodeSet(m, src, attr, v) == [m EXCEPT !.links = (<<src, attr>> :> v) @@ @]

\* LockReader that enters the reader's lock whenever it was initialised
LockReader_IgnoresThreadCount(m) ==
    [m EXCEPT !.locked = IF readerLock THEN @ \cup {"reader"} ELSE @]

\* LockReader: the reader's lock is entered when the thread count is not 1
\* and the lock was initialised
LockReader(m) ==
    [m EXCEPT !.locked = IF threadCount # 1 /\ readerLock THEN @ \cup {"reader"} ELSE @]

GetDefaultShader(m) ==
    LET m0 == LockReader(m)
    IN  IF m0.dsh = Null
        THEN LET m1 == AiNode(m0, "standard_surface", "_default_arnold_shader", 0, {}, "reader")
                 m2 == AiNode(m1, "user_data_rgb", "_default_arnold_shader_color", 0, {}, "reader")
                 m3 == [m2 EXCEPT !.dsh = m.nextId, !.rnodes = @ \o <<m.nextId, m1.nextId>>]
             IN  AiNodeSet(m3, m.nextId, "base_color", [kind |-> "link", to |-> <<m1.nextId>>, comp |-> ""])
        ELSE m0

\* UsdArnoldReaderContext::GetPrimvars for a context whose _primvars is cpv
GetPrimvars(m, cpv) == IF ~m.t.disp THEN Top(m.t.pstack) ELSE cpv

SupportedElems == {"x", "y", "z", "r", "g", "b", "a"}

IsOutputComponent(elem) ==
    Len(elem) > 1 /\ elem[Len(elem) - 1] = ":" /\ elem[Len(elem)] \in SupportedElems

Connection(source, attr, target, type, elem) ==
    [sourceNode |-> source, sourceAttr |-> attr, target |-> target, type |-> type,
     outputElement |-> elem]

\* The tail of ProcessConnection for a Pointer or Link connection
\* (reader.cpp, after the target was looked up or created).
\* How often connection c has been applied in this read so far.
TimesApplied(m, c) == Cardinality({a \in m.applied : a.conn = c})

ApplyConnection(m, c, target) ==
    LET m1 == [m EXCEPT !.applied = @ \cup {[conn |-> c, step |-> readStep, to |-> <<target>>,
                                            n |-> TimesApplied(m, c) + 1]}]
    IN  IF c.type = "PTR"
        THEN AiNodeSet(m1, c.sourceNode, c.sourceAttr, [kind |-> "ptr", to |-> <<target>>, comp |-> ""])
        ELSE IF c.type = "LINK"
        THEN IF target = Null
             THEN AiNodeSet(m1, c.sourceNode, c.sourceAttr, [kind |-> "unlinked", to |-> <<>>, comp |-> ""])
             ELSE IF IsOutputComponent(c.outputElement)
             THEN AiNodeSet(m1, c.sourceNode, c.sourceAttr,
                            [kind |-> "link", to |-> <<target>>, comp |-> c.outputElement[Len(c.outputElement)]])
             ELSE AiNodeSet(m1, c.sourceNode, c.sourceAttr, [kind |-> "link", to |-> <<target>>, comp |-> ""])
        ELSE m1

RECURSIVE ProcessConnection(_, _, _), ProcessArray(_, _, _, _, _), NextToken(_, _, _, _, _),
          ReadPrimitive(_, _, _, _, _),
          PrimReaderRead(_, _, _, _), AddConnection(_, _, _, _, _, _, _)

\* ProcessConnection: the nested usd procedural created for a prototype, with
\* the parameters set on it.
NestedProcedural(m, name, prim) ==
    [CreateArnoldNode(m, "usd", name, prim, {}, "reader") EXCEPT
        !.ai[m.nextId].params = [filename |-> filename, object_path |-> name, frame |-> time.frame,
                                 motion_start |-> time.motionStart, motion_end |-> time.motionEnd,
                                 overrides |-> overrides, visibility |-> 0]]

\* ProcessConnection after the forced ReadPrimitive: the target is looked up
\* again, and a Pointer to a prototype that still has no node gets a nested
\* procedural.
AfterForced(m, c, name, prim) ==
    IF LookupNode(m, name, TRUE) = Null /\ c.type = "PTR" /\ IsPrototype(prim)
    THEN [m |-> NestedProcedural(m, name, prim), target |-> m.nextId]
    ELSE [m |-> m, target |-> LookupNode(m, name, TRUE)]

\* ProcessConnection: the connection is applied to the target found, if any.
Resolve(r, c) ==
    IF r.target = Null
    THEN [m |-> r.m, ret |-> FALSE]
    ELSE [m |-> ApplyConnection(r.m, c, r.target), ret |-> TRUE]

\* UsdArnoldReaderThreadContext::ProcessConnection; the result is the record
\* after the call and the value returned.
ProcessConnection(m, c, fuel) ==
    IF c.type = "ARRAY"
    THEN ProcessArray(m, c, 1, <<>>, fuel)
    ELSE IF LookupNode(m, c.target[1], TRUE) # Null
    THEN Resolve([m |-> m, target |-> LookupNode(m, c.target[1], TRUE)], c)
    ELSE IF readStep = "DANGLING_CONNECTIONS" /\ GetPrimAtPath(c.target[1]) # 0
    THEN IF fuel = 0
         THEN [m |-> [m EXCEPT !.ok = FALSE], ret |-> FALSE]
         ELSE Resolve(
                  AfterForced(
                      ReadPrimitive(
                          [m EXCEPT !.t.pstack = SetTop(@, FindPrimvarsWithInheritance(
                                                               GetPrimAtPath(c.target[1]))),
                                    !.forced = Append(@, [prim |-> GetPrimAtPath(c.target[1]),
                                                          site |-> "single"])],
                          GetPrimAtPath(c.target[1]), {}, FALSE, fuel - 1),
                      c, c.target[1], GetPrimAtPath(c.target[1])),
                  c)
    ELSE [m |-> m, ret |-> FALSE]

\* An array branch that sets the array of the nodes it finds and leaves the
\* missing ones out
ProcessArray_Partial(m, c, i, vecNodes, fuel) ==
    LET found == SelectSeq(c.target, LAMBDA token : LookupNode(m, token, TRUE) # Null)
        nodesFound == [k \in DOMAIN found |-> LookupNode(m, found[k], TRUE)]
    IN  [m |-> AiNodeSet(m, c.sourceNode, c.sourceAttr, [kind |-> "array", to |-> nodesFound, comp |-> ""]),
         ret |-> TRUE]

\* The loop of ProcessConnection over the tokens of an ArrayOfPointers
\* target, from token i on, with the nodes found so far in vecNodes.
ProcessArray(m, c, i, vecNodes, fuel) ==
    IF i > Len(c.target)
    THEN [m |-> AiNodeSet([m EXCEPT !.applied = @ \cup {[conn |-> c, step |-> readStep, to |-> vecNodes,
                                                          n |-> TimesApplied(m, c) + 1]}],
                          c.sourceNode, c.sourceAttr, [kind |-> "array", to |-> vecNodes, comp |-> ""]),
          ret |-> TRUE]
    ELSE IF LookupNode(m, c.target[i], TRUE) # Null
    THEN ProcessArray(m, c, i + 1, Append(vecNodes, LookupNode(m, c.target[i], TRUE)), fuel)
    ELSE IF readStep = "DANGLING_CONNECTIONS" /\ GetPrimAtPath(c.target[i]) # 0
    THEN IF fuel = 0
         THEN [m |-> [m EXCEPT !.ok = FALSE], ret |-> FALSE]
         ELSE NextToken(
                  ReadPrimitive(
                      [m EXCEPT !.t.pstack = SetTop(@, FindPrimvarsWithInheritance(
                                                           GetPrimAtPath(c.target[i]))),
                                !.forced = Append(@, [prim |-> GetPrimAtPath(c.target[i]),
                                                      site |-> "array"])],
                      GetPrimAtPath(c.target[i]), {}, FALSE, fuel - 1),
                  c, i, vecNodes, fuel)
    ELSE [m |-> m, ret |-> FALSE]

\* The loop of ProcessConnection after the forced ReadPrimitive for token i:
\* it returns false when the token still has no node, and goes on otherwise.
NextToken(m, c, i, vecNodes, fuel) ==
    IF LookupNode(m, c.target[i], TRUE) = Null
    THEN [m |-> m, ret |-> FALSE]
    ELSE ProcessArray(m, c, i + 1, Append(vecNodes, LookupNode(m, c.target[i], TRUE)), fuel)

\* An AddConnection that stores the connection in the traversal and does
\* nothing in any other step
AddConnection_TraverseOnly(m, source, attr, target, type, elem, fuel) ==
    IF readStep = "TRAVERSE"
    THEN [m EXCEPT !.t.conns = Append(@, Connection(source, attr, target, type, elem)),
                   !.registered = @ \cup {Connection(source, attr, target, type, elem)},
                   !.locked = IF m.t.disp THEN @ \cup {"addConnection"} ELSE @]
    ELSE m

\* An AddConnection that stores the connection whatever the read step
AddConnection_AlwaysStores(m, source, attr, target, type, elem, fuel) ==
    [m EXCEPT !.t.conns = Append(@, Connection(source, attr, target, type, elem)),
              !.registered = @ \cup {Connection(source, attr, target, type, elem)}]

\* UsdArnoldReaderThreadContext::AddConnection
AddConnection(m, source, attr, target, type, elem, fuel) ==
    IF readStep = "TRAVERSE"
    THEN AiCritSecLeave(
             [AiCritSecEnter(m, "addConnection") EXCEPT
                 !.t.conns = Append(@, Connection(source, attr, target, type, elem)),
                 !.registered = @ \cup {Connection(source, attr, target, type, elem)}],
             "addConnection")
    ELSE IF readStep = "DANGLING_CONNECTIONS"
    THEN ProcessConnection(m, Connection(source, attr, target, type, elem), fuel).m
    ELSE m

\* ReadMaterialBinding (utils.cpp): the mesh's shader connection, or the
\* default shader when nothing is bound.
ReadMaterialBinding(m, node, assignDefault, fuel) ==
    IF doc.shader # ""
    THEN AddConnection(m, node, "shader", <<doc.shader>>, "PTR", <<>>, fuel)
    ELSE IF assignDefault
    THEN LET m1 == GetDefaultShader(m)
         IN  AiNodeSet(m1, node, "shader", [kind |-> "ptr", to |-> <<m1.dsh>>, comp |-> ""])
    ELSE m

\* ReadSubsetsMaterialBinding (utils.cpp): one array connection listing the
\* shader of every face subset.
ReadSubsetsMaterialBinding(m, node, assignDefault, fuel) ==
    LET bound == IF doc.unassigned THEN Append(doc.subsets, doc.shader) ELSE doc.subsets
        needDefault == assignDefault /\ \E i \in DOMAIN bound : bound[i] = ""
        m1 == IF needDefault THEN GetDefaultShader(m) ELSE m
        shaderStr(str) == IF str # "" THEN str
                          ELSE IF assignDefault THEN "_default_arnold_shader"
                          ELSE "NULL"
        shadersArrayStr == [i \in DOMAIN bound |-> shaderStr(bound[i])]
    IN  IF shadersArrayStr # <<>>
        THEN AddConnection(m1, node, "shader", shadersArrayStr, "ARRAY", <<>>, fuel)
        ELSE m1

\* The converter registers the node it has just created under the element's
\* path, when it is one that does so.
RegisterNode(m, p) == IF p \in doc.reg THEN AddNodeName(m, Path(p), m.nextId - 1) ELSE m

\* The converter reads the element's material binding or its input link.
ReadAttributes(m, p, node, fuel) ==
    IF p = 2
    THEN IF doc.subsets # <<>>
         THEN ReadSubsetsMaterialBinding(m, node, TRUE, fuel)
         ELSE ReadMaterialBinding(m, node, TRUE, fuel)
    ELSE IF p = 3 /\ doc.matInput # ""
    THEN AddConnection(m, node, "base_color", <<LinkTarget(doc.matInput)>>, "LINK", <<>>, fuel)
    ELSE IF p = 4 /\ doc.texInput # ""
    THEN AddConnection(m, node, "multiply", <<doc.texInput>>, "LINK", <<>>, fuel)
    ELSE m

\* UsdArnoldPrimReader::Read of the converter registered for the element:
\* one node named by the element's path, the node registered under the path
\* when the converter does so, and the element's connections.
PrimReaderRead(m, p, cpv, fuel) ==
    ReadAttributes(
        RegisterNode(CreateArnoldNode(m, ArnoldType(p), Path(p), p, GetPrimvars(m, cpv), "converter"), p),
        p, m.nextId, fuel)

\* TimeSettings as default-constructed
TimeSettings == [frame |-> 1, motionBlur |-> FALSE, motionStart |-> 0, motionEnd |-> 0]

\* TimeSettings::start and TimeSettings::end: the shutter interval around the
\* frame, the frame itself without motion blur
TimeStart(t) == IF t.motionBlur THEN t.frame + t.motionStart ELSE t.frame

TimeEnd(t) == IF t.motionBlur THEN t.frame + t.motionEnd ELSE t.frame

\* ------------------------------------------------------------------------
\* ReadMatrix.  A call is a record:
\*   time           the TimeSettings of the read
\*   samples        the times at which the element's transform is authored
\*   parentVarying  an ancestor's transform might be time varying
\*   hasMatrices    the context holds the matrices a dispatched job was given
\*   out            <<>> before the call; after it the one record of what the
\*                  call set on the node: matrix, the array (the time of each
\*                  key, as <<numerator, denominator>>), and motion,
\*                  <<motion_start, motion_end>>, or <<>> when it set neither
\* ------------------------------------------------------------------------
\* UsdGeomXformable::TransformMightBeTimeVarying
TransformMightBeTimeVarying(samples) == Cardinality(samples) > 1

\* UsdGeomXformable::GetTimeSamplesInInterval for the open interval (lo, hi)
GetTimeSamplesInInterval(samples, lo, hi) == {x \in samples : lo < x /\ x < hi}

\* ReadMatrix(prim, time, context, isXformable) that forgets the two keys at
\* the bounds of the interval
ReadMatrixArray_NoBoundKeys(c) ==
    LET lo == TimeStart(c.time)
        hi == TimeEnd(c.time)
        numKeys == Cardinality(GetTimeSamplesInInterval(c.samples, lo, hi))
    IN  IF c.time.motionBlur /\ (TransformMightBeTimeVarying(c.samples) \/ c.parentVarying)
        THEN [i \in 1..numKeys |-> <<lo * (numKeys - 1) + (i - 1) * (hi - lo), numKeys - 1>>]
        ELSE <<<<c.time.frame, 1>>>>

\* ReadMatrix(prim, time, context, isXformable): the array of matrices, one
\* per key, each the element's transform at the key's time
ReadMatrixArray(c) ==
    LET animated == TransformMightBeTimeVarying(c.samples) \/ (c.time.motionBlur /\ c.parentVarying)
        lo == TimeStart(c.time)
        hi == TimeEnd(c.time)
        numKeys == Cardinality(GetTimeSamplesInInterval(c.samples, lo, hi)) + 2
    IN  IF c.time.motionBlur /\ animated
        THEN [i \in 1..numKeys |-> <<lo * (numKeys - 1) + (i - 1) * (hi - lo), numKeys - 1>>]
        ELSE <<<<c.time.frame, 1>>>>

\* UsdArnoldReaderContext::GetMatrices: the array ReadPrimitive computed with
\* ReadMatrix for the job it dispatched, none (nullptr) in any other context
GetMatrices(c) == IF c.hasMatrices THEN ReadMatrixArray(c) ELSE <<>>

\* ReadMatrix(prim, node, time, context, isXformable): what it sets on the node
ReadMatrix(c) ==
    LET matrices == IF GetMatrices(c) # <<>> THEN GetMatrices(c) ELSE ReadMatrixArray(c)
    IN  [matrix |-> matrices,
         motion |-> IF Len(matrices) > 1 THEN <<c.time.motionStart, c.time.motionEnd>> ELSE <<>>]

\* The times at which the element's transform is authored in the documents.
XformSamples(p) == IF p = 2 THEN {0, 1} ELSE {}

\* The context ReadPrimitive builds for the job of element p: the array
\* ReadMatrix gives for the element under the reader's time settings, and the
\* top of the thread context's stack of inherited attributes.
JobContext(m, p) ==
    [prim |-> p,
     matrix |-> ReadMatrixArray([time |-> time, samples |-> XformSamples(p),
                                 parentVarying |-> FALSE, hasMatrices |-> FALSE, out |-> <<>>]),
     pv |-> Top(m.t.pstack)]

\* A ReadPrimitive whose job gets a context without matrix and attributes
ReadPrimitive_EmptyJobContext(m, p, cpv, isInstance, fuel) ==
    IF isInstance
    THEN IF GetPrototype(p) = 0 \/ GetPrototype(p) \notin StagePrims
         THEN m
         ELSE LET m1 == CreateArnoldNode(m, "ginstance", Path(p), p, {}, "reader")
              IN  AddConnection(m1, m.nextId, "node", <<Path(GetPrototype(p))>>, "PTR", <<>>, fuel)
    ELSE LET cls == GetPrimReader(TypeName(p))
         IN  IF cls # "" /\ cls \in mask
             THEN IF dispatcher
                  THEN [m EXCEPT !.jobs = @ \cup {[prim |-> p, matrix |-> <<>>, pv |-> {}]}]
                  ELSE PrimReaderRead(m, p, cpv, fuel)
             ELSE m

\* A ReadPrimitive that creates the prototype's node along with the proxy
ReadPrimitive_CreatesPrototype(m, p, cpv, isInstance, fuel) ==
    IF isInstance
    THEN IF GetPrototype(p) = 0 \/ GetPrototype(p) \notin StagePrims
         THEN m
         ELSE LET m1 == CreateArnoldNode(m, "ginstance", Path(p), p, {}, "reader")
                  m2 == AddConnection(m1, m.nextId, "node", <<Path(GetPrototype(p))>>, "PTR", <<>>, fuel)
              IN  CreateArnoldNode(m2, "usd", Path(GetPrototype(p)), GetPrototype(p), {}, "reader")
    ELSE LET cls == GetPrimReader(TypeName(p))
         IN  IF cls # "" /\ cls \in mask
             THEN IF dispatcher
                  THEN [m EXCEPT !.jobs = @ \cup {JobContext(m, p)}]
                  ELSE PrimReaderRead(m, p, cpv, fuel)
             ELSE m

\* UsdArnoldReader::ReadPrimitive with a context whose _primvars is cpv
ReadPrimitive(m, p, cpv, isInstance, fuel) ==
    IF isInstance
    THEN IF GetPrototype(p) = 0 \/ GetPrototype(p) \notin StagePrims
         THEN m
         ELSE LET m1 == CreateArnoldNode(m, "ginstance", Path(p), p, {}, "reader")
              IN  AddConnection(m1, m.nextId, "node", <<Path(GetPrototype(p))>>, "PTR", <<>>, fuel)
    ELSE LET cls == GetPrimReader(TypeName(p))
         IN  IF cls # "" /\ cls \in mask
             THEN IF dispatcher
                  THEN [m EXCEPT !.jobs = @ \cup {JobContext(m, p)}]
                  ELSE PrimReaderRead(m, p, cpv, fuel)
             ELSE m

\* A ProcessConnections that keeps every connection in the list, resolved
\* or not
RECURSIVE ProcessConnectionsFrom_KeepsAll(_, _, _)

ProcessConnectionsFrom_KeepsAll(m, i, kept) ==
    IF i > Len(m.t.conns)
    THEN m
    ELSE ProcessConnectionsFrom_KeepsAll(ProcessConnection(m, m.t.conns[i], MaxDepth).m, i + 1, kept)

\* UsdArnoldReaderThreadContext::ProcessConnections: the loop from
\* connection i on, with the unresolved connections kept so far.
RECURSIVE ProcessConnectionsFrom(_, _, _)

ProcessConnectionsFrom(m, i, kept) ==
    IF i > Len(m.t.conns)
    THEN [m EXCEPT !.t.conns = kept]
    ELSE LET r == ProcessConnection(m, m.t.conns[i], MaxDepth)
         IN  ProcessConnectionsFrom(r.m, i + 1, IF r.ret THEN kept ELSE Append(kept, m.t.conns[i]))

ProcessConnections(m) ==
    ProcessConnectionsFrom([m EXCEPT !.t.pstack = <<{}>>], 1, <<>>)

\* ------------------------------------------------------------------------
\* Initial state: a reader as its constructor leaves it, in an empty universe
\* ------------------------------------------------------------------------
\* The calls of ReadMatrix that are tried.
MatrixCalls ==
    [time : {[frame |-> f, motionBlur |-> mb[1], motionStart |-> mb[2], motionEnd |-> mb[3]] :
                f \in {1, 2}, mb \in {<<FALSE, 0, 0>>, <<FALSE, -1, 1>>, <<TRUE, -1, 1>>,
                                       <<TRUE, 0, 2>>, <<TRUE, 0, 0>>}},
     samples : SUBSET (0..MaxSample),
     parentVarying : BOOLEAN,
     hasMatrices : BOOLEAN,
     out : {<<>>}]

NoMatrix ==
    [time |-> TimeSettings, samples |-> {}, parentVarying |-> FALSE, hasMatrices |-> FALSE,
     out |-> <<>>]

NoCall == [op |-> "none", args |-> <<>>]

NoRead == [threadCount |-> 1, timeIn |-> TimeSettings, time |-> TimeSettings, path |-> "",
           mask |-> AI_NODE_ALL, procParent |-> NoParent, stage |-> NullPtr, clean |-> TRUE,
           afterClear |-> FALSE, firstId |-> 1]

\* The reader as its constructor leaves it
InitReader ==
    /\ pc = "idle"
    /\ jn = 0
    /\ nodes = <<>>
    /\ nodeNames = EmptyMap
    /\ readStep = "NOT_STARTED"
    /\ time = TimeSettings
    /\ filename = ""
    /\ overrides = NullPtr
    /\ stage = NullPtr
    /\ threadCount = 1
    /\ dispatcher = FALSE
    /\ debug = FALSE
    /\ convert = TRUE
    /\ procParent = NoParent
    /\ mask = AI_NODE_ALL
    /\ defaultShader = Null
    /\ ai = EmptyMap
    /\ links = EmptyMap
    /\ nextId = 1
    /\ td = <<>>
    /\ jobs = {}
    /\ dangling = <<>>
    /\ dpos = 0
    /\ root = 0
    /\ readKind = "none"
    /\ calls = 0
    /\ lastCall = NoCall
    /\ forced = <<>>
    /\ applied = {}
    /\ registered = {}
    /\ cur = NoRead
    /\ tick = 0
    /\ hist = <<>>
    /\ registry = FALSE
    /\ readerLock = FALSE
    /\ locked = {}

Init ==
    /\ doc \in Docs
    /\ mx = NoMatrix
    /\ budget = MaxCalls
    /\ InitReader

\* The variables a call that only touches the reader's settings leaves alone.
readVars == <<jn, readStep, stage, dispatcher, nextId, td, jobs, dangling, dpos, root, readKind,
              forced, applied, registered, cur, tick, hist, filename, overrides, nodeNames, doc, pc,
              registry, locked, mx, budget>>

Call(op, args) ==
    /\ pc = "idle"
    /\ calls < budget
    /\ calls' = calls + 1
    /\ lastCall' = [op |-> op, args |-> args]

\* ------------------------------------------------------------------------
\* Settings
\* ------------------------------------------------------------------------
\* ClearNodes that destroys the nodes and keeps the node list
DoClearNodes_KeepsList ==
    LET destroyed == IF procParent = NoParent THEN {nodes[i] : i \in DOMAIN nodes} ELSE {}
    IN  /\ ai' = [id \in DOMAIN ai \ destroyed |-> ai[id]]
        /\ links' = [k \in {l \in DOMAIN links : l[1] \notin destroyed} |-> links[k]]
        /\ nodes' = nodes
        /\ defaultShader' = Null

\* ClearNodes that destroys the nodes of the list whoever owns them
DoClearNodes_IgnoresParent ==
    LET destroyed == {nodes[i] : i \in DOMAIN nodes}
    IN  /\ ai' = [id \in DOMAIN ai \ destroyed |-> ai[id]]
        /\ links' = [k \in {l \in DOMAIN links : l[1] \notin destroyed} |-> links[k]]
        /\ nodes' = <<>>
        /\ defaultShader' = Null

\* The effect of UsdArnoldReader::ClearNodes on the node list, the default
\* shader and the universe.
DoClearNodes ==
    LET destroyed == IF procParent = NoParent THEN {nodes[i] : i \in DOMAIN nodes} ELSE {}
    IN  /\ ai' = [id \in DOMAIN ai \ destroyed |-> ai[id]]
        /\ links' = [k \in {l \in DOMAIN links : l[1] \notin destroyed} |-> links[k]]
        /\ nodes' = <<>>
        /\ defaultShader' = Null

ClearNodes ==
    /\ Call("ClearNodes", <<>>)
    /\ DoClearNodes
    /\ UNCHANGED <<readVars, time, threadCount, debug, convert, procParent, mask, readerLock>>

SetFrame ==
    \E frame \in {1, 2} :
        /\ Call("SetFrame", <<>>)
        /\ DoClearNodes
        /\ time' = [time EXCEPT !.frame = frame]
        /\ UNCHANGED <<readVars, threadCount, debug, convert, procParent, mask, readerLock>>

SetMotionBlur ==
    \E mb \in {<<FALSE, 0, 0>>, <<TRUE, -1, 1>>} :
        /\ Call("SetMotionBlur", <<>>)
        /\ DoClearNodes
        /\ time' = [time EXCEPT !.motionBlur = mb[1], !.motionStart = mb[2], !.motionEnd = mb[3]]
        /\ UNCHANGED <<readVars, threadCount, debug, convert, procParent, mask, readerLock>>

SetDebug ==
    \E b \in BOOLEAN :
        /\ Call("SetDebug", <<>>)
        /\ DoClearNodes
        /\ debug' = b
        /\ UNCHANGED <<readVars, time, threadCount, convert, procParent, mask, readerLock>>

SetConvertPrimitives ==
    \E b \in BOOLEAN :
        /\ Call("SetConvertPrimitives", <<>>)
        /\ DoClearNodes
        /\ convert' = b
        /\ UNCHANGED <<readVars, time, threadCount, debug, procParent, mask, readerLock>>

SetThreadCount ==
    \E t \in 0..MaxThreads :
        /\ Call("SetThreadCount", <<>>)
        /\ threadCount' = t
        /\ readerLock' = (readerLock \/ t # 1)
        /\ UNCHANGED <<readVars, time, debug, convert, procParent, mask, nodes, defaultShader, ai, links>>

SetProceduralParent ==
    \E node \in {NoParent, ProcNode} :
        /\ Call("SetProceduralParent", <<>>)
        /\ DoClearNodes
        /\ procParent' = node
        /\ UNCHANGED <<readVars, time, threadCount, debug, convert, mask, readerLock>>

SetMask ==
    \E m \in {AI_NODE_ALL, {"shape"}} :
        /\ Call("SetMask", <<>>)
        /\ mask' = m
        /\ UNCHANGED <<readVars, time, threadCount, debug, convert, procParent, nodes, defaultShader, ai, links, readerLock>>

\* ------------------------------------------------------------------------
\* Read
\* ------------------------------------------------------------------------
\* A UsdThreadData as ReadStage sets it up and ReaderThread initialises it.
ThreadData(i) ==
    [threadId |-> i,
     ctx |-> [nodes |-> <<>>, names |-> EmptyMap, conns |-> <<>>, pstack |-> <<{}>>,
              disp |-> (threadCount = 0), held |-> {}, maxHeld |-> 0],
     pos |-> 1, index |-> 0, st |-> "traverse", cst |-> "none", read |-> <<>>, joined |-> <<>>]

\* Validation that lets every stage and root path through
Validate_Accepts(st, path) == "ok"

\* How a read's arguments fare in ReadStage's validation.
Validate(st, path) ==
    IF st = NullPtr THEN "nostage"
    ELSE IF path # "" /\ (PrimAtPathIn(st, path) = 0 \/ ~IsActive(PrimAtPathIn(st, path)))
    THEN "badpath"
    ELSE "ok"

\* The shutter of the render camera, as <<open, close>>, or <<>> when the
\* stage's /options element names no camera.
RenderCamera(st) == IF st = "doc" THEN doc.camera ELSE <<>>

\* A shutter lookup that does not ask whether there is a procedural parent
ReadCameraShutter_IgnoresParent(st) ==
    LET cam == RenderCamera(st)
    IN  IF cam # <<>>
        THEN [time EXCEPT !.motionBlur = cam[2] > cam[1], !.motionStart = cam[1],
                          !.motionEnd = cam[2]]
        ELSE time

\* A read that never looks the render camera up
ReadCameraShutter_Never(st) == time

\* ReadStage: without procedural parent the motion blur settings are taken
\* from the shutter of the render camera; the time settings that result.
ReadCameraShutter(st) ==
    LET cam == RenderCamera(st)
    IN  IF procParent = NoParent /\ cam # <<>>
        THEN [time EXCEPT !.motionBlur = cam[2] > cam[1], !.motionStart = cam[1],
                          !.motionEnd = cam[2]]
        ELSE time

\* UsdArnoldReader::ReadStage, from its entry to the creation of the
\* traversal threads, followed on an early return by the tail of the Read
\* overload that called it.
ReadStage(st, path, kind, fname, ovr) ==
    LET rootPrim == PrimAtPathIn(st, path)
        newMask == IF procParent # NoParent THEN mask \cap ProcMask ELSE mask
        newTime == ReadCameraShutter(st)
        threads == IF threadCount = 0 THEN 1 ELSE threadCount
        layerLock == IF kind = "file" /\ ovr # NullPtr THEN {"global"} ELSE {}
    IN  /\ stage' = st
        /\ registry' = (registry \/ st # NullPtr)
        /\ locked' = layerLock \cup (IF st # NullPtr /\ ~registry THEN {"global"} ELSE {})
        /\ IF Validate(st, path) # "ok"
           THEN /\ mask' = IF st = NullPtr THEN mask ELSE newMask
                /\ filename' = IF kind = "file" THEN "" ELSE filename
                /\ overrides' = IF kind = "file" THEN NullPtr ELSE overrides
                /\ UNCHANGED <<time, dispatcher, readStep, td, pc, root, readKind, forced, applied,
                               registered, cur>>
           ELSE /\ mask' = newMask
                /\ filename' = IF kind = "file" THEN fname ELSE filename
                /\ overrides' = IF kind = "file" THEN ovr ELSE overrides
                /\ time' = newTime
                /\ dispatcher' = (threadCount = 0)
                /\ readStep' = "TRAVERSE"
                /\ td' = [i \in 1..threads |-> ThreadData(i - 1)]
                /\ pc' = "traverse"
                /\ root' = IF path = "" THEN 0 ELSE rootPrim
                /\ readKind' = kind
                /\ forced' = <<>>
                /\ applied' = {}
                /\ registered' = {}
                /\ cur' = [threadCount |-> threadCount, timeIn |-> time, time |-> newTime,
                           path |-> path, mask |-> newMask, procParent |-> procParent,
                           stage |-> st, clean |-> (nodeNames = EmptyMap /\ DOMAIN ai = {}),
                           afterClear |-> (lastCall.op = "ClearNodes"), firstId |-> nextId]
        /\ UNCHANGED <<doc, jn, nodes, nodeNames, threadCount, debug, convert, procParent,
                       defaultShader, ai, links, nextId, jobs, dangling, dpos, tick, hist,
                       readerLock, mx, budget>>

notCall == <<doc, pc, jn, nodes, nodeNames, readStep, time, filename, overrides, stage,
             threadCount, dispatcher, debug, convert, procParent, mask, defaultShader,
             ai, links, nextId, td, jobs, dangling, dpos, root, readKind,
             forced, applied, registered, cur, tick, hist, registry, readerLock, locked, mx, budget>>

\* The stage UsdStage::Open gives Read(filename, overrides, path).
OpenStage(file, ovr) ==
    CASE file = "scene.usd" -> "doc"
      [] file = "missing.usd" /\ ovr # NullPtr -> "overrides"
      [] OTHER -> NullPtr

\* The arguments the reads are called with.
ReadArgs ==
    { <<"scene.usd", NullPtr, "">>, <<"scene.usd", NullPtr, "/World/mesh">>,
      <<"scene.usd", NullPtr, "/nope">>, <<"scene.usd", NullPtr, "/Off">>,
      <<"missing.usd", NullPtr, "">>,
      <<"missing.usd", "overrides", "">>, <<"corrupt.usd", NullPtr, "">> }

ReadCacheArgs == { <<"cached", "">>, <<"cached", "/nope">>, <<"unknown", "">> }

\* A guard that never skips the read
NodesExist_Never == FALSE

\* if (!_nodes.empty()) return;
NodesExist == nodes # <<>>

\* UsdArnoldReader::Read(filename, overrides, path)
Read ==
    \E args \in ReadArgs :
      LET file == args[1]
          ovr == args[2]
          path == args[3]
      IN
        /\ Call("Read", args)
        /\ IF NodesExist
           THEN UNCHANGED notCall
           ELSE IF ovr = NullPtr /\ file = "missing.usd"
           THEN /\ filename' = file
                /\ overrides' = ovr
                /\ locked' = {}
                /\ UNCHANGED <<doc, pc, jn, nodes, nodeNames, readStep, time, stage,
                               threadCount, dispatcher, debug, convert, procParent, mask,
                               defaultShader, ai, links, nextId, td, jobs, dangling, dpos, root,
                               readKind, forced, applied, registered, cur, tick, hist,
                               registry, readerLock, mx, budget>>
           ELSE ReadStage(OpenStage(file, ovr), path, "file", file, ovr)

\* UsdArnoldReader::Read(cacheId, path)
ReadCache ==
    \E args \in ReadCacheArgs :
      LET id == args[1]
          path == args[2]
      IN
        /\ Call("ReadCache", args)
        /\ IF NodesExist \/ id = "unknown"
           THEN UNCHANGED notCall
           ELSE ReadStage("doc", path, "cache", "", NullPtr)

\* ------------------------------------------------------------------------
\* The threads of ReadStage
\* ------------------------------------------------------------------------
Env(w, pick) ==
    [ai |-> ai, links |-> links, nextId |-> nextId, rnodes |-> nodes, dsh |-> defaultShader,
     t |-> td[w].ctx, jobs |-> jobs, forced |-> forced, applied |-> applied,
     registered |-> registered, locked |-> locked, via |-> "direct", pick |-> pick, ok |-> TRUE]

\* The controlling thread is past AiThreadWait on another traversal thread
\* than w, at the unlocked insert into the reader's node list, while the code
\* on thread data w writes that list: a data race on the vector.
DataRace(m, w) ==
    /\ pc = "traverse" /\ jn < Len(td) /\ jn + 1 # w /\ td[jn + 1].st = "done"
    /\ m.rnodes # nodes

\* What the code run on thread data w leaves, with d the thread's own record.
\* In a data race on the reader's node list the thread's push is kept or lost.
Commit(m, w, d) ==
    /\ ai' = m.ai
    /\ links' = m.links
    /\ nextId' = m.nextId
    /\ nodes' \in (IF DataRace(m, w) THEN {m.rnodes, nodes} ELSE {m.rnodes})
    /\ defaultShader' = m.dsh
    /\ jobs' = m.jobs
    /\ forced' = m.forced
    /\ applied' = m.applied
    /\ registered' = m.registered
    /\ locked' = m.locked
    /\ td' = [td EXCEPT ![w] = [d EXCEPT !.ctx = m.t]]

threadUnchanged == <<doc, nodeNames, readStep, time, filename, overrides, stage, threadCount,
                     dispatcher, debug, convert, procParent, mask, dangling, root, readKind,
                     calls, lastCall, cur, hist, registry, readerLock, mx, budget>>

Range == PreAndPostVisit(root)

\* A ReaderThread whose ownership test leaves the thread's id out
ReaderThread_IgnoresThreadId(w) ==
    /\ td[w].st = "traverse"
    /\ td[w].pos <= Len(Range)
    /\ LET d == td[w]
           p == Range[d.pos].prim
           m == Env(w, "old")
           multithread == Len(td) > 1
           inherited == Top(d.ctx.pstack)
           primvars == FindIncrementallyInheritablePrimvars(p, inherited)
           pushed == [m EXCEPT !.t.pstack = Append(@, IF primvars = {} THEN inherited ELSE primvars)]
       IN  IF TypeName(p) = "" /\ ~IsInstanceable(p)
           THEN Commit(m, w, [d EXCEPT !.pos = @ + 1])
           ELSE IF Range[d.pos].post
           THEN Commit([m EXCEPT !.t.pstack = SubSeq(@, 1, Len(@) - 1)], w, [d EXCEPT !.pos = @ + 1])
           ELSE IF PruneChildren(p)
           THEN Commit(pushed, w, [d EXCEPT !.pos = PostIndex(Range, d.pos) + 1])
           ELSE IF multithread /\ d.index % Len(td) # 0
           THEN Commit(pushed, w, [d EXCEPT !.pos = @ + 1, !.index = @ + 1])
           ELSE Commit(ReadPrimitive(pushed, p, {}, IsInstanceable(p), MaxDepth), w,
                       [d EXCEPT !.pos = @ + 1, !.index = IF multithread THEN @ + 1 ELSE @,
                                 !.read = Append(@, p)])
    /\ tick' = 1 - tick
    /\ UNCHANGED <<threadUnchanged, pc, jn, dpos>>

\* A ReaderThread that counts a pruned element in its ownership index
ReaderThread_CountsPruned(w) ==
    /\ td[w].st = "traverse"
    /\ td[w].pos <= Len(Range)
    /\ LET d == td[w]
           p == Range[d.pos].prim
           m == Env(w, "old")
           multithread == Len(td) > 1
           inherited == Top(d.ctx.pstack)
           primvars == FindIncrementallyInheritablePrimvars(p, inherited)
           pushed == [m EXCEPT !.t.pstack = Append(@, IF primvars = {} THEN inherited ELSE primvars)]
       IN  IF TypeName(p) = "" /\ ~IsInstanceable(p)
           THEN Commit(m, w, [d EXCEPT !.pos = @ + 1])
           ELSE IF Range[d.pos].post
           THEN Commit([m EXCEPT !.t.pstack = SubSeq(@, 1, Len(@) - 1)], w, [d EXCEPT !.pos = @ + 1])
           ELSE IF PruneChildren(p)
           THEN Commit(pushed, w, [d EXCEPT !.pos = PostIndex(Range, d.pos) + 1, !.index = @ + 1])
           ELSE IF multithread /\ (d.index + d.threadId) % Len(td) # 0
           THEN Commit(pushed, w, [d EXCEPT !.pos = @ + 1, !.index = @ + 1])
           ELSE Commit(ReadPrimitive(pushed, p, {}, IsInstanceable(p), MaxDepth), w,
                       [d EXCEPT !.pos = @ + 1, !.index = IF multithread THEN @ + 1 ELSE @,
                                 !.read = Append(@, p)])
    /\ tick' = 1 - tick
    /\ UNCHANGED <<threadUnchanged, pc, jn, dpos>>

\* One iteration of the loop of UsdArnoldReader::ReaderThread
ReaderThread(w) ==
    /\ td[w].st = "traverse"
    /\ td[w].pos <= Len(Range)
    /\ LET d == td[w]
           p == Range[d.pos].prim
           m == Env(w, "old")
           multithread == Len(td) > 1
           inherited == Top(d.ctx.pstack)
           primvars == FindIncrementallyInheritablePrimvars(p, inherited)
           pushed == [m EXCEPT !.t.pstack = Append(@, IF primvars = {} THEN inherited ELSE primvars)]
       IN  IF TypeName(p) = "" /\ ~IsInstanceable(p)
           THEN Commit(m, w, [d EXCEPT !.pos = @ + 1])
           ELSE IF Range[d.pos].post
           THEN Commit([m EXCEPT !.t.pstack = SubSeq(@, 1, Len(@) - 1)], w, [d EXCEPT !.pos = @ + 1])
           ELSE IF PruneChildren(p)
           THEN Commit(pushed, w, [d EXCEPT !.pos = PostIndex(Range, d.pos) + 1])
           ELSE IF multithread /\ (d.index + d.threadId) % Len(td) # 0
           THEN Commit(pushed, w, [d EXCEPT !.pos = @ + 1, !.index = @ + 1])
           ELSE Commit(ReadPrimitive(pushed, p, {}, IsInstanceable(p), MaxDepth), w,
                       [d EXCEPT !.pos = @ + 1, !.index = IF multithread THEN @ + 1 ELSE @,
                                 !.read = Append(@, p)])
    /\ tick' = 1 - tick
    /\ UNCHANGED <<threadUnchanged, pc, jn, dpos>>

\* _UsdArnoldPrimReaderJob::operator(): a dispatched job runs
RunJob ==
    \E j \in jobs :
        /\ LET m == [Env(1, "old") EXCEPT !.jobs = @ \ {j}, !.via = "job"]
           IN  Commit(PrimReaderRead(m, j.prim, j.pv, MaxDepth), 1, td[1])
        /\ tick' = 1 - tick
    /\ UNCHANGED <<threadUnchanged, pc, jn, dpos>>

\* The end of ReaderThread: wait for the dispatcher, return
ReaderThreadEnd(w) ==
    /\ td[w].st = "traverse"
    /\ td[w].pos > Len(Range)
    /\ dispatcher => jobs = {}
    /\ td' = [td EXCEPT ![w].st = "done"]
    /\ tick' = 1 - tick
    /\ UNCHANGED <<threadUnchanged, pc, jn, dpos, ai, links, nextId, nodes, defaultShader, jobs,
                   forced, applied, registered, locked>>

\* AiThreadWait returns once the thread, whose state is given, has returned
AiThreadWait_Returns(state) == TRUE

AiThreadWait(state) == state = "done"

\* A join that replaces the reader's node list by the worker's
JoinTraverse_Overwrites ==
    /\ pc = "traverse"
    /\ jn < Len(td)
    /\ AiThreadWait(td[jn + 1].st)
    /\ nodes' = td[jn + 1].ctx.nodes
    /\ nodeNames' = nodeNames @@ td[jn + 1].ctx.names
    /\ td' = [td EXCEPT ![jn + 1].ctx.nodes = <<>>, ![jn + 1].ctx.names = EmptyMap,
                         ![jn + 1].joined = td[jn + 1].ctx.nodes]
    /\ jn' = jn + 1
    /\ tick' = 1 - tick
    /\ UNCHANGED <<doc, pc, readStep, time, filename, overrides, stage, threadCount, dispatcher,
                   debug, convert, procParent, mask, defaultShader, ai, links, nextId, jobs,
                   dangling, dpos, root, readKind, calls, lastCall, forced, applied, registered,
                   cur, hist, registry, readerLock, locked, mx, budget>>

\* ReadStage: one iteration of the loop that joins the traversal threads
JoinTraverse ==
    /\ pc = "traverse"
    /\ jn < Len(td)
    /\ AiThreadWait(td[jn + 1].st)
    /\ nodes' = nodes \o td[jn + 1].ctx.nodes
    /\ nodeNames' = nodeNames @@ td[jn + 1].ctx.names
    /\ td' = [td EXCEPT ![jn + 1].ctx.nodes = <<>>, ![jn + 1].ctx.names = EmptyMap,
                         ![jn + 1].joined = td[jn + 1].ctx.nodes]
    /\ jn' = jn + 1
    /\ tick' = 1 - tick
    /\ UNCHANGED <<doc, pc, readStep, time, filename, overrides, stage, threadCount, dispatcher,
                   debug, convert, procParent, mask, defaultShader, ai, links, nextId, jobs,
                   dangling, dpos, root, readKind, calls, lastCall, forced, applied, registered,
                   cur, hist, registry, readerLock, locked, mx, budget>>

\* A ReadStage that goes from the traversal straight to the dangling step
StartProcessConnections_SkipsStep ==
    /\ pc = "traverse"
    /\ jn = Len(td)
    /\ dispatcher' = FALSE
    /\ readStep' = "DANGLING_CONNECTIONS"
    /\ td' = [i \in DOMAIN td |-> [td[i] EXCEPT !.cst = "connect"]]
    /\ pc' = "process"
    /\ jn' = 0
    /\ tick' = 1 - tick
    /\ UNCHANGED <<doc, nodes, nodeNames, time, filename, overrides, stage, threadCount,
                   debug, convert, procParent, mask, defaultShader, ai, links, nextId, jobs,
                   dangling, dpos, root, readKind, calls, lastCall, forced, applied, registered,
                   cur, hist, registry, readerLock, locked, mx, budget>>

\* A ReadStage that keeps its dispatcher after the traversal
StartProcessConnections_KeepsDispatcher ==
    /\ pc = "traverse"
    /\ jn = Len(td)
    /\ dispatcher' = dispatcher
    /\ readStep' = "PROCESS_CONNECTIONS"
    /\ td' = [i \in DOMAIN td |-> [td[i] EXCEPT !.cst = "connect"]]
    /\ pc' = "process"
    /\ jn' = 0
    /\ tick' = 1 - tick
    /\ UNCHANGED <<doc, nodes, nodeNames, time, filename, overrides, stage, threadCount,
                   debug, convert, procParent, mask, defaultShader, ai, links, nextId, jobs,
                   dangling, dpos, root, readKind, calls, lastCall, forced, applied, registered,
                   cur, hist, registry, readerLock, locked, mx, budget>>

\* ReadStage: the dispatcher is deleted, the connection threads are created
StartProcessConnections ==
    /\ pc = "traverse"
    /\ jn = Len(td)
    /\ dispatcher' = FALSE
    /\ readStep' = "PROCESS_CONNECTIONS"
    /\ td' = [i \in DOMAIN td |-> [td[i] EXCEPT !.cst = "connect"]]
    /\ pc' = "process"
    /\ jn' = 0
    /\ tick' = 1 - tick
    /\ UNCHANGED <<doc, nodes, nodeNames, time, filename, overrides, stage, threadCount,
                   debug, convert, procParent, mask, defaultShader, ai, links, nextId, jobs,
                   dangling, dpos, root, readKind, calls, lastCall, forced, applied, registered,
                   cur, hist, registry, readerLock, locked, mx, budget>>

Picks == {"old", "new"}

\* UsdArnoldReader::ProcessConnectionsThread
ProcessConnectionsThread(w) ==
    /\ td[w].cst = "connect"
    /\ \E pick \in Picks :
           Commit(ProcessConnections(Env(w, pick)), w, [td[w] EXCEPT !.cst = "done"])
    /\ tick' = 1 - tick
    /\ UNCHANGED <<threadUnchanged, pc, jn, dpos>>

\* ReadStage: one iteration of the loop that joins the connection threads
JoinProcessConnections ==
    /\ pc = "process"
    /\ jn < Len(td)
    /\ AiThreadWait(td[jn + 1].cst)
    /\ dangling' = dangling \o td[jn + 1].ctx.conns
    /\ td' = [td EXCEPT ![jn + 1].ctx.conns = <<>>]
    /\ jn' = jn + 1
    /\ tick' = 1 - tick
    /\ UNCHANGED <<doc, pc, nodes, nodeNames, readStep, time, filename, overrides, stage,
                   threadCount, dispatcher, debug, convert, procParent, mask, defaultShader, ai,
                   links, nextId, jobs, dpos, root, readKind, calls, lastCall, forced, applied,
                   registered, cur, hist, registry, readerLock, locked, mx, budget>>

StartDangling ==
    /\ pc = "process"
    /\ jn = Len(td)
    /\ readStep' = "DANGLING_CONNECTIONS"
    /\ pc' = "dangling"
    /\ dpos' = 1
    /\ tick' = 1 - tick
    /\ UNCHANGED <<doc, jn, nodes, nodeNames, time, filename, overrides, stage, threadCount,
                   dispatcher, debug, convert, procParent, mask, defaultShader, ai, links, nextId,
                   td, jobs, dangling, root, readKind, calls, lastCall, forced, applied, registered,
                   cur, hist, registry, readerLock, locked, mx, budget>>

\* The name the dangling loop looks a connection's target up by: the whole
\* target string, which for a list of several names is no name at all.
TargetString(conn) == IF Len(conn.target) = 1 THEN conn.target[1] ELSE "<list>"

\* A dangling loop that steps over a connection without processing it
DanglingConnection_Skips ==
    /\ pc = "dangling"
    /\ dpos <= Len(dangling)
    /\ dpos' = dpos + 1
    /\ tick' = 1 - tick
    /\ UNCHANGED <<threadUnchanged, jn, pc, ai, links, nextId, nodes, defaultShader, jobs,
                   forced, applied, registered, locked, td>>

\* ReadStage: one iteration of the loop over the dangling connections
DanglingConnection ==
    /\ pc = "dangling"
    /\ dpos <= Len(dangling)
    /\ \E pick \in Picks :
        LET conn == dangling[dpos]
            name == TargetString(conn)
            m == Env(1, pick)
            prim == GetPrimAtPath(name)
            m1 == IF LookupNode(m, name, TRUE) = Null /\ prim # 0
                  THEN ReadPrimitive([m EXCEPT !.forced = Append(@, [prim |-> prim, site |-> "loop"])],
                                     prim, {}, FALSE, MaxDepth)
                  ELSE m
            r == ProcessConnection(m1, conn, MaxDepth)
        IN  /\ Commit(r.m, 1, td[1])
            /\ pc' = IF r.m.ok THEN pc ELSE "stuck"
    /\ dpos' = dpos + 1
    /\ tick' = 1 - tick
    /\ UNCHANGED <<threadUnchanged, jn>>

NodeName(id) == IF id \in DOMAIN ai THEN ai[id].name ELSE "<destroyed>"

\* What a finished read leaves: the names of the nodes of the node list, the
\* node references they hold and the primvars their converters were given.
Outcome(nodeList) ==
    LET ns == {nodeList[i] : i \in DOMAIN nodeList}
    IN  [cfg |-> cur,
         names |-> {NodeName(n) : n \in ns},
         conns |-> {<<NodeName(k[1]), k[2], links[k].kind, links[k].comp,
                      [i \in DOMAIN links[k].to |-> NodeName(links[k].to[i])]>> :
                    k \in {l \in DOMAIN links : l[1] \in ns}},
         pvs |-> {<<NodeName(n), ai[n].pv>> : n \in {x \in ns \cap DOMAIN ai : ai[x].by = "converter"}}]

\* ReadStage: the end of the dangling pass and of the read, followed by the
\* tail of the Read overload that called it.
FinishRead ==
    /\ pc = "dangling"
    /\ dpos > Len(dangling)
    /\ LET newNodes == IF dangling # <<>> THEN nodes \o td[1].ctx.nodes ELSE nodes
       IN  /\ nodes' = newNodes
           /\ hist' = Append(hist, Outcome(newNodes))
    /\ nodeNames' = IF dangling # <<>> THEN nodeNames @@ td[1].ctx.names ELSE nodeNames
    /\ td' = <<>>
    /\ stage' = NullPtr
    /\ readStep' = "FINISHED"
    /\ filename' = IF readKind = "file" THEN "" ELSE filename
    /\ overrides' = IF readKind = "file" THEN NullPtr ELSE overrides
    /\ pc' = "idle"
    /\ jn' = 0
    /\ dpos' = 0
    /\ dangling' = <<>>
    /\ root' = 0
    /\ readKind' = "none"
    /\ tick' = 1 - tick
    /\ UNCHANGED <<doc, time, threadCount, dispatcher, debug, convert, procParent, mask,
                   defaultShader, ai, links, nextId, jobs, calls, lastCall, forced, applied,
                   registered, cur, registry, readerLock, locked, mx, budget>>

\* UsdArnoldReader::~UsdArnoldReader: the reader's lock is closed; the nodes
\* are left in the universe
Destroy ==
    /\ pc = "idle"
    /\ pc' = "destroyed"
    /\ readerLock' = FALSE
    /\ UNCHANGED <<doc, jn, nodes, nodeNames, readStep, time, filename, overrides, stage,
                   threadCount, dispatcher, debug, convert, procParent, mask, defaultShader,
                   ai, links, nextId, td, jobs, dangling, dpos, root, readKind, calls, lastCall,
                   forced, applied, registered, cur, tick, hist, registry, locked, mx, budget>>

Next ==
    \/ Read
    \/ ReadCache
    \/ ClearNodes
    \/ SetFrame
    \/ SetMotionBlur
    \/ SetDebug
    \/ SetConvertPrimitives
    \/ SetThreadCount
    \/ SetProceduralParent
    \/ SetMask
    \/ \E w \in DOMAIN td : ReaderThread(w)
    \/ RunJob
    \/ \E w \in DOMAIN td : ReaderThreadEnd(w)
    \/ JoinTraverse
    \/ StartProcessConnections
    \/ \E w \in DOMAIN td : ProcessConnectionsThread(w)
    \/ JoinProcessConnections
    \/ StartDangling
    \/ DanglingConnection
    \/ FinishRead
    \/ Destroy

Spec == Init /\ [][Next]_vars

\* The reader given the documents whose mesh has face subsets.
ArrayInit ==
    /\ doc \in ArrayDocs
    /\ mx = NoMatrix
    /\ budget = MaxCalls
    /\ InitReader

ArraySpec == ArrayInit /\ [][Next]_vars

\* ReadMatrix called once with each of MatrixCalls.
MatrixInit ==
    /\ doc \in Docs
    /\ mx \in MatrixCalls
    /\ budget = MaxCalls
    /\ InitReader

ReadMatrixCall ==
    /\ mx.out = <<>>
    /\ mx' = [mx EXCEPT !.out = <<ReadMatrix(mx)>>]
    /\ UNCHANGED <<doc, pc, jn, nodes, nodeNames, readStep, time, filename, overrides, stage,
                   threadCount, dispatcher, debug, convert, procParent, mask, defaultShader,
                   ai, links, nextId, td, jobs, dangling, dpos, root, readKind, calls, lastCall,
                   forced, applied, registered, cur, tick, hist, registry, readerLock, locked, budget>>

MatrixNext == ReadMatrixCall

MatrixSpec == MatrixInit /\ [][MatrixNext]_vars

\* The reader driven by reads, ClearNodes and SetThreadCount alone, for one
\* call more: a stage is read, and read again with another thread count.
RereadInit ==
    /\ doc \in Docs
    /\ mx = NoMatrix
    /\ budget = MaxRereadCalls
    /\ InitReader

RereadNext ==
    \/ Read
    \/ ClearNodes
    \/ SetThreadCount
    \/ SetProceduralParent
    \/ \E w \in DOMAIN td : ReaderThread(w)
    \/ RunJob
    \/ \E w \in DOMAIN td : ReaderThreadEnd(w)
    \/ JoinTraverse
    \/ StartProcessConnections
    \/ \E w \in DOMAIN td : ProcessConnectionsThread(w)
    \/ JoinProcessConnections
    \/ StartDangling
    \/ DanglingConnection
    \/ FinishRead

RereadSpec == RereadInit /\ [][RereadNext]_vars

\* ------------------------------------------------------------------------
\* AddConnection called by code outside the reader, in any read step
\* ------------------------------------------------------------------------
\* The thread context the caller has: one of the read's while a read is
\* under way (the first one in the dangling pass), its own between reads.
CallerContexts ==
    IF td = <<>> THEN {0} ELSE IF pc = "dangling" THEN {1} ELSE DOMAIN td

\* The source node the caller passes: the first node of the universe, or no
\* node when there is none.
CallerSource == IF DOMAIN ai = {} THEN Null ELSE CHOOSE id \in DOMAIN ai : \A x \in DOMAIN ai : id <= x

\* UsdArnoldReaderThreadContext::AddConnection called on context w for a
\* link of the source's emission input to target.
AddConnectionCall ==
    \E w \in CallerContexts, target \in {"/World/mat", "/missing"} :
        /\ pc \in {"idle", "traverse", "process", "dangling"}
        /\ calls < budget
        /\ readStep \in {"TRAVERSE", "DANGLING_CONNECTIONS"} => CallerSource # Null
        /\ calls' = calls + 1
        /\ lastCall' = [op |-> "AddConnection", args |-> <<readStep, w, target>>]
        /\ LET t == IF w = 0 THEN ThreadData(0).ctx ELSE td[w].ctx
               m == [ai |-> ai, links |-> links, nextId |-> nextId, rnodes |-> nodes,
                     dsh |-> defaultShader, t |-> t, jobs |-> jobs, forced |-> forced,
                     applied |-> applied, registered |-> registered, locked |-> locked,
                     via |-> "direct", pick |-> "old", ok |-> TRUE]
               r == AddConnection(m, CallerSource, "emission", <<target>>, "LINK", <<>>, MaxDepth)
           IN  /\ ai' = r.ai
               /\ links' = r.links
               /\ nextId' = r.nextId
               /\ nodes' = r.rnodes
               /\ defaultShader' = r.dsh
               /\ jobs' = r.jobs
               /\ forced' = r.forced
               /\ applied' = r.applied
               /\ registered' = r.registered
               /\ locked' = r.locked
               /\ td' = IF w = 0 THEN td ELSE [td EXCEPT ![w].ctx = r.t]
        /\ UNCHANGED <<doc, nodeNames, readStep, time, filename, overrides, stage, threadCount,
                       dispatcher, debug, convert, procParent, mask, dangling, root, readKind,
                       cur, hist, registry, readerLock, mx, budget, pc, jn, dpos, tick>>

\* The reader driven by reads and SetThreadCount, with AddConnection called
\* from outside at any point.
ConnectionNext ==
    \/ Read
    \/ SetThreadCount
    \/ AddConnectionCall
    \/ \E w \in DOMAIN td : ReaderThread(w)
    \/ RunJob
    \/ \E w \in DOMAIN td : ReaderThreadEnd(w)
    \/ JoinTraverse
    \/ StartProcessConnections
    \/ \E w \in DOMAIN td : ProcessConnectionsThread(w)
    \/ JoinProcessConnections
    \/ StartDangling
    \/ DanglingConnection
    \/ FinishRead

ConnectionSpec == Init /\ [][ConnectionNext]_vars

\* The steps ReadStage and its threads take once a read is under way.
Steps ==
    \/ \E w \in DOMAIN td : ReaderThread(w)
    \/ RunJob
    \/ \E w \in DOMAIN td : ReaderThreadEnd(w)
    \/ JoinTraverse
    \/ StartProcessConnections
    \/ \E w \in DOMAIN td : ProcessConnectionsThread(w)
    \/ JoinProcessConnections
    \/ StartDangling
    \/ DanglingConnection
    \/ FinishRead

\* A step of the read is possible: the guard of one of the actions of Steps
\* holds (each of them, once its guard holds, has a next state).
CanStep ==
    \/ \E w \in DOMAIN td :
          td[w].st = "traverse" /\ (td[w].pos <= Len(Range) \/ (dispatcher => jobs = {}))
    \/ jobs # {}
    \/ pc = "traverse" /\ (jn = Len(td) \/ AiThreadWait(td[jn + 1].st))
    \/ \E w \in DOMAIN td : td[w].cst = "connect"
    \/ pc = "process" /\ (jn = Len(td) \/ AiThreadWait(td[jn + 1].cst))
    \/ pc = "dangling"

\* A step of the read, seen through tick.
Step == CanStep /\ tick' = 1 - tick

\* The threads are scheduled and the controlling thread keeps running: while
\* a step of the read is possible, one is eventually taken.
FairSpec == Spec /\ WF_tick(Step)

\* ------------------------------------------------------------------------
\* Properties
\* ------------------------------------------------------------------------
\* The stage a read called with these arguments hands to ReadStage.
StageOfCall(c) ==
    IF c.op = "Read"
    THEN IF c.args[1] = "scene.usd" THEN "doc"
         ELSE IF c.args[1] = "missing.usd" /\ c.args[2] # NullPtr THEN "overrides"
         ELSE NullPtr
    ELSE IF c.op = "ReadCache" /\ c.args[1] = "cached" THEN "doc"
    ELSE NullPtr

\* The root path a read is called with.
PathOfCall(c) == c.args[Len(c.args)]

\* The read's stage is null, or its root path names no element of the stage
\* or an inactive one.
BadCall(c) ==
    \/ StageOfCall(c) = NullPtr
    \/ /\ PathOfCall(c) # ""
       /\ ~\E p \in doc.present : StageOfCall(c) = "doc" /\ Path(p) = PathOfCall(c) /\ IsActive(p)

\* C1: in a read that passes validation the read step goes TRAVERSE,
\* PROCESS_CONNECTIONS, DANGLING_CONNECTIONS, FINISHED in this order, one
\* step at a time: the only changes of the read step are NOT_STARTED or
\* FINISHED to TRAVERSE (a read begins) and each step to the one after it.
C1_StepOrder ==
    [][readStep' # readStep =>
          <<readStep, readStep'>> \in { <<"NOT_STARTED", "TRAVERSE">>,
                                       <<"FINISHED", "TRAVERSE">>,
                                       <<"TRAVERSE", "PROCESS_CONNECTIONS">>,
                                       <<"PROCESS_CONNECTIONS", "DANGLING_CONNECTIONS">>,
                                       <<"DANGLING_CONNECTIONS", "FINISHED">> }]_vars

\* Two reads went through all their steps.
C1_Witness == readStep = "FINISHED" /\ Len(hist) = 2 /\ nodes # <<>>

\* C2: a read that entered TRAVERSE reaches FINISHED.
C2_Terminates == (readStep = "TRAVERSE") ~> (readStep = "FINISHED")

\* A read finished whose dangling pass converted an element from inside the
\* conversion of another (the connection was added while draining).
C2_Witness ==
    /\ readStep = "FINISHED"
    /\ pc = "idle"
    /\ \E i \in DOMAIN forced : forced[i].site = "single" /\ forced[i].prim = 4

\* C3: while the read step is PROCESS_CONNECTIONS no traversal thread and no
\* dispatched job is running, and while it is DANGLING_CONNECTIONS no
\* connection thread is running.
C3_PhasesDisjoint ==
    /\ readStep = "PROCESS_CONNECTIONS" =>
           jobs = {} /\ \A w \in DOMAIN td : td[w].st = "done"
    /\ readStep = "DANGLING_CONNECTIONS" =>
           jobs = {} /\ \A w \in DOMAIN td : td[w].st = "done" /\ td[w].cst = "done"

\* The dangling pass of a read by two threads has connections to drain.
C3_Witness ==
    readStep = "DANGLING_CONNECTIONS" /\ Len(td) = 2 /\ dangling # <<>> /\ dpos = 1

\* C4: Read, by file name or by cache id, called while the node list is not
\* empty changes none of node list, name table, read step, time settings,
\* file name, overrides and stage, and creates no node.
C4_ReadIsNoOp ==
    [][(calls' = calls + 1 /\ lastCall'.op \in {"Read", "ReadCache"} /\ nodes # <<>>) =>
          UNCHANGED <<nodes, nodeNames, readStep, time, filename, overrides, stage, ai, nextId,
                      td, pc>>]_vars

\* Read was called for /World/mesh on a reader that holds the nodes of a
\* read of the whole stage.
C4_Witness ==
    /\ pc = "idle"
    /\ lastCall = [op |-> "Read", args |-> <<"scene.usd", NullPtr, "/World/mesh">>]
    /\ cur.path = ""
    /\ readStep = "FINISHED"
    /\ nodes # <<>>

\* C5: after SetFrame, SetMotionBlur, SetDebug or SetConvertPrimitives the
\* node list is empty, and a Read that follows with a stage and a root path
\* that pass validation starts the traversal.
C5_SettersClear ==
    [][/\ (calls' = calls + 1 /\ lastCall'.op \in {"SetFrame", "SetMotionBlur", "SetDebug",
                                                   "SetConvertPrimitives"})
            => nodes' = <<>>
       /\ (/\ lastCall.op \in {"SetFrame", "SetMotionBlur", "SetDebug", "SetConvertPrimitives"}
           /\ calls' = calls + 1
           /\ lastCall'.op \in {"Read", "ReadCache"}
           /\ ~BadCall(lastCall'))
            => (readStep' = "TRAVERSE" /\ td' # <<>>)]_vars

\* A read, SetFrame, and a second read that is translating.
C5_Witness ==
    /\ calls = 3
    /\ Len(hist) = 1
    /\ hist[1].names # {}
    /\ lastCall.op = "Read"
    /\ readStep = "TRAVERSE"
    /\ time.frame = 2

\* C6: a read whose stage is null, or whose root path names no element or an
\* inactive one, leaves the node list empty, starts no thread and does not
\* move the read step.
C6_Aborts ==
    [][(calls' = calls + 1 /\ lastCall'.op \in {"Read", "ReadCache"} /\ BadCall(lastCall')) =>
          /\ nodes = <<>> => nodes' = <<>>
          /\ td' = <<>>
          /\ pc' = "idle"
          /\ readStep' = readStep
          /\ readStep' # "TRAVERSE"
          /\ UNCHANGED <<ai, nextId>>]_vars

\* ReadStage returned early on the inactive /Off.
C6_Witness ==
    /\ lastCall = [op |-> "Read", args |-> <<"scene.usd", NullPtr, "/Off">>]
    /\ 7 \in doc.present
    /\ stage = "doc"
    /\ pc = "idle"
    /\ nodes = <<>>

\* Two reads were given the same root path, time settings, mask,
\* procedural parent and stage.
SameSettings(a, b) ==
    /\ a.path = b.path
    /\ a.time = b.time
    /\ a.mask = b.mask
    /\ a.procParent = b.procParent
    /\ a.stage = b.stage

\* C7: finished reads of the document with the same settings, each begun
\* with an empty name table in an empty universe, leave the same node names
\* and the same resolved connections and gave each converter the same
\* inherited primvars, whatever their thread counts.
C7_ThreadCountInvariant ==
    \A i, j \in DOMAIN hist :
        (hist[i].cfg.clean /\ hist[j].cfg.clean /\ SameSettings(hist[i].cfg, hist[j].cfg)) =>
            /\ hist[i].names = hist[j].names
            /\ hist[i].conns = hist[j].conns
            /\ hist[i].pvs = hist[j].pvs

\* C8: a read that follows a finished read and a call of ClearNodes, with
\* the settings and the thread count of that read, leaves the same node
\* names and the same resolved connections.
C8_RereadSame ==
    \A i \in DOMAIN hist :
        (/\ i + 1 \in DOMAIN hist
         /\ hist[i + 1].cfg.afterClear
         /\ SameSettings(hist[i].cfg, hist[i + 1].cfg)
         /\ hist[i].cfg.threadCount = hist[i + 1].cfg.threadCount) =>
            /\ hist[i].names = hist[i + 1].names
            /\ hist[i].conns = hist[i + 1].conns

\* The nodes this read created for the element named name during TRAVERSE.
ConvertedInTraverse(name) ==
    {id \in DOMAIN ai : /\ ai[id].name = name
                        /\ id >= cur.firstId
                        /\ ai[id].step = "TRAVERSE"
                        /\ ai[id].by = "converter"}

\* C9: at the end of the dangling pass, a registered connection to an
\* element converted during TRAVERSE has been applied during
\* PROCESS_CONNECTIONS with that element's node as its target, is not in the
\* dangling list, and ReadPrimitive was not called for the element by the
\* dangling pass.
C9_ResolvedInProcess ==
    (pc = "dangling" /\ dpos > Len(dangling)) =>
        \A c \in registered :
            (c.type # "ARRAY" /\ ConvertedInTraverse(c.target[1]) # {}) =>
                /\ \E a \in applied : /\ a.conn = c
                                      /\ a.step = "PROCESS_CONNECTIONS"
                                      /\ a.to[1] \in ConvertedInTraverse(c.target[1])
                /\ \A k \in DOMAIN dangling : dangling[k] # c
                /\ \A k \in DOMAIN forced : Path(forced[k].prim) # c.target[1]

\* Element p, or an element above it, was pruned by the traversal.
PrunedInTraversal(p) ==
    \E k \in DOMAIN Range :
        /\ ~Range[k].post
        /\ PruneChildren(Range[k].prim)
        /\ Range[k].prim \in {p, Parent(p)}

\* C10: at the end of the dangling pass, for a registered connection to an
\* element of the stage that the traversal pruned and whose converter the
\* mask allows, this read has created the element's node during
\* DANGLING_CONNECTIONS and the connection's attribute refers to it.
C10_PrunedTargetMaterialized ==
    (pc = "dangling" /\ dpos > Len(dangling)) =>
        \A c \in registered :
            LET p == GetPrimAtPath(c.target[1])
            IN  (/\ c.type # "ARRAY"
                 /\ p # 0
                 /\ PrunedInTraversal(p)
                 /\ GetPrimReader(TypeName(p)) \in mask) =>
                    \E id \in DOMAIN ai :
                        /\ ai[id].prim = p
                        /\ id >= cur.firstId
                        /\ ai[id].step = "DANGLING_CONNECTIONS"
                        /\ <<c.sourceNode, c.sourceAttr>> \in DOMAIN links
                        /\ links[<<c.sourceNode, c.sourceAttr>>].to = <<id>>

\* The elements of a sequence.
Elems(seq) == {seq[i] : i \in DOMAIN seq}

\* The dangling pass is over.
DanglingDone == pc = "dangling" /\ dpos > Len(dangling)

\* The attribute of connection c holds an array of nodes of these names.
HoldsArray(c, names) ==
    /\ <<c.sourceNode, c.sourceAttr>> \in DOMAIN links
    /\ links[<<c.sourceNode, c.sourceAttr>>].kind = "array"
    /\ [i \in DOMAIN links[<<c.sourceNode, c.sourceAttr>>].to |->
           NodeName(links[<<c.sourceNode, c.sourceAttr>>].to[i])] = names

\* The name is that of an element the traversal pruned, with a converter the
\* mask allows.
PrunedButConvertible(name) ==
    LET p == GetPrimAtPath(name)
    IN  p # 0 /\ PrunedInTraversal(p) /\ GetPrimReader(TypeName(p)) \in mask

\* The name is neither an element of the stage nor a node of the universe.
ExistsNowhere(name) ==
    GetPrimAtPath(name) = 0 /\ name \notin DOMAIN nodeNames /\ \A id \in DOMAIN ai : ai[id].name # name

\* C11: at the end of the dangling pass an array connection listing three
\* names a, b, c, with a pruned by the traversal and convertible, b converted
\* during TRAVERSE and c nowhere to be found, has set the source attribute
\* to the array of the two nodes a and b.
C11_ArrayDropsMissing ==
    DanglingDone =>
        \A c \in registered :
            (/\ c.type = "ARRAY"
             /\ Len(c.target) = 3
             /\ PrunedButConvertible(c.target[1])
             /\ ConvertedInTraverse(c.target[2]) # {}
             /\ ExistsNowhere(c.target[3])) =>
                HoldsArray(c, <<c.target[1], c.target[2]>>)

\* The value of the attribute of connection c is the same before and after
\* the step.
AttributeUnmodified(c) ==
    LET key == <<c.sourceNode, c.sourceAttr>>
    IN  /\ key \in DOMAIN links' <=> key \in DOMAIN links
        /\ key \in DOMAIN links => links'[key] = links[key]

\* C12: a connection thread that finds a member of an array connection
\* unresolved leaves the connection's attribute as it was and keeps the
\* connection in its list, and the join moves every connection kept to the
\* dangling list.
C12_ArrayDeferredWhole ==
    [][/\ \A w \in DOMAIN td :
              (td[w].cst = "connect" /\ td' # <<>> /\ td'[w].cst = "done") =>
                  \A c \in Elems(td[w].ctx.conns) :
                      (/\ c.type = "ARRAY"
                       /\ \E k \in DOMAIN c.target :
                              LookupNode(Env(w, "old"), c.target[k], TRUE) = Null) =>
                          /\ AttributeUnmodified(c)
                          /\ c \in Elems(td'[w].ctx.conns)
       /\ (pc = "process" /\ jn' = jn + 1) =>
              Elems(td[jn + 1].ctx.conns) \subseteq Elems(dangling')]_vars

\* The dangling pass begins with an array connection of three names of which
\* one was found, and the attribute is not set.
C12_Witness ==
    /\ pc = "dangling"
    /\ dpos = 1
    /\ \E c \in Elems(dangling) :
           /\ c.type = "ARRAY"
           /\ Len(c.target) = 3
           /\ ConvertedInTraverse(c.target[2]) # {}
           /\ <<c.sourceNode, c.sourceAttr>> \notin DOMAIN links

\* ------------------------------------------------------------------------
\* C13
\* ------------------------------------------------------------------------
\* ReadStage is running: between the creation of the traversal threads and
\* the end of the read.
InRead == pc \in {"traverse", "process", "dangling", "stuck"}

\* The locks that belong to one reader: its own and those of its thread contexts.
ReaderLocks == {"reader", "createNode", "addConnection", "addNodeName"}

\* The nodes the element converters created during TRAVERSE of the current read.
ConvertedNow ==
    {id \in DOMAIN ai : id >= cur.firstId /\ ai[id].by = "converter" /\ ai[id].step = "TRAVERSE"}

\* With thread count 0: one traversal worker, a dispatcher for the whole of
\* TRAVERSE, and every element conversion of TRAVERSE run as a job of it.
ThreadCountZero ==
    (InRead /\ threadCount = 0) =>
        /\ Len(td) = 1
        /\ readStep = "TRAVERSE" => dispatcher
        /\ \A id \in ConvertedNow : ai[id].via = "job"

C13_WitnessZero ==
    /\ InRead /\ threadCount = 0 /\ readStep = "PROCESS_CONNECTIONS"
    /\ ConvertedNow # {}

\* ------------------------------------------------------------------------
\* C14
\* ------------------------------------------------------------------------
\* The nodes of the node lists the workers of the current read handed over
\* when they were joined.
WorkerNodes == UNION {Elems(td[w].joined) : w \in DOMAIN td}

\* The nodes GetDefaultShader created in the current read.
DefaultShaderNodes ==
    {id \in DOMAIN ai : /\ id >= cur.firstId
                        /\ ai[id].name \in {"_default_arnold_shader", "_default_arnold_shader_color"}}

NoDuplicates(seq) == Cardinality(Elems(seq)) = Len(seq)

\* C14 as stated: when the read step changes from TRAVERSE to
\* PROCESS_CONNECTIONS the reader's node list holds exactly the union of the
\* workers' node lists, each node once and nothing else.
C14_MergedIsUnion ==
    [][(readStep = "TRAVERSE" /\ readStep' = "PROCESS_CONNECTIONS") =>
            (Elems(nodes') = WorkerNodes' /\ NoDuplicates(nodes'))]_vars

\* C14 with the default shader allowed for: when the read step changes from
\* TRAVERSE to PROCESS_CONNECTIONS the reader's node list holds exactly the
\* union of the workers' node lists and the two nodes of the default shader,
\* if a conversion of this read asked for it, each node once and nothing
\* else.  It fails where GetDefaultShader's push races with the merge (C22).
C14_MergedIsUnionAndDefault ==
    [][(readStep = "TRAVERSE" /\ readStep' = "PROCESS_CONNECTIONS") =>
            /\ Elems(nodes') = WorkerNodes' \cup DefaultShaderNodes'
            /\ WorkerNodes' \cap DefaultShaderNodes' = {}
            /\ NoDuplicates(nodes')]_vars

\* Two workers have been joined, both with nodes, and the default shader was
\* created during the traversal.
C14_Witness ==
    /\ readStep = "PROCESS_CONNECTIONS" /\ Len(td) = 2
    /\ \A w \in DOMAIN td : td[w].joined # <<>>
    /\ DefaultShaderNodes # {}
    /\ Elems(nodes) = WorkerNodes \cup DefaultShaderNodes

\* ------------------------------------------------------------------------
\* C15
\* ------------------------------------------------------------------------
\* The step is a call of SetFrame or of SetMotionBlur.
TimeSetterStep == calls' = calls + 1 /\ lastCall'.op \in {"SetFrame", "SetMotionBlur"}

\* The step is the start of a read, by a reader without procedural parent, of
\* a stage whose /options element names a camera.
CameraShutterStep ==
    /\ calls' = calls + 1 /\ lastCall'.op \in {"Read", "ReadCache"}
    /\ procParent = NoParent /\ stage' # NullPtr /\ RenderCamera(stage') # <<>>
    /\ time' = [time EXCEPT !.motionBlur = RenderCamera(stage')[2] > RenderCamera(stage')[1],
                            !.motionStart = RenderCamera(stage')[1],
                            !.motionEnd = RenderCamera(stage')[2]]

\* C15 as stated: the time settings are left alone by a read and change
\* only in a call of SetFrame or SetMotionBlur, so that after a read they
\* are what the setters were last given.
C15_TimeOnlyBySetters == [][time' # time => TimeSetterStep]_vars

\* C15, amended: the time settings do not change from the start of TRAVERSE
\* to the end of the read; the frame changes only in SetFrame; the motion
\* blur settings change only in SetMotionBlur and, before the traversal of a
\* read without procedural parent, to the shutter of the camera that the
\* stage's /options element names.
C15_TimeFixedInTraversal ==
    [][/\ time' # time => (TimeSetterStep \/ CameraShutterStep)
       /\ time'.frame # time.frame => (calls' = calls + 1 /\ lastCall'.op = "SetFrame")
       /\ InRead => time' = time]_vars

\* A read has returned with the time settings its start took from the
\* camera's shutter, which are not those SetMotionBlur was last given.
C15_Witness ==
    /\ pc = "idle" /\ readStep = "FINISHED" /\ lastCall.op \in {"Read", "ReadCache"}
    /\ cur.timeIn # time /\ cur.time = time
    /\ time.motionBlur /\ time.motionStart = 0 /\ time.motionEnd = 1

\* ------------------------------------------------------------------------
\* C16
\* ------------------------------------------------------------------------
\* The nodes created since the current read (or, between reads, the last
\* one) started.
CreatedInRead == {id \in DOMAIN ai : id >= cur.firstId}

\* C16: no two nodes created within one read have the same name, the nodes
\* of forced materializations and the nested procedurals created for
\* prototypes in the dangling pass included.
C16_UniqueNames ==
    \A a, b \in CreatedInRead : ai[a].name = ai[b].name => a = b

\* A read has finished whose dangling pass read a prototype at both sites of
\* forced materialization and created the nested procedural for it.
C16_Witness ==
    /\ readStep = "FINISHED" /\ pc = "idle"
    /\ Len(forced) >= 2
    /\ \E id \in CreatedInRead : ai[id].type = "usd"

\* A read has finished whose dangling pass materialized a pruned shader and,
\* from within its conversion, the pruned shader linked to it.
C16_WitnessPruned ==
    /\ readStep = "FINISHED" /\ pc = "idle"
    /\ \E i, j \in DOMAIN forced : forced[i].site = "loop" /\ forced[j].site = "single"
                                   /\ forced[i].prim = 3 /\ forced[j].prim = 4
    /\ \E a, b \in CreatedInRead : ai[a].prim = 3 /\ ai[b].prim = 4

\* ------------------------------------------------------------------------
\* C17
\* ------------------------------------------------------------------------
\* The step is a call of ClearNodes or of a setting that calls it.
ClearingStep ==
    /\ calls' = calls + 1
    /\ lastCall'.op \in {"ClearNodes", "SetFrame", "SetMotionBlur", "SetDebug",
                         "SetConvertPrimitives", "SetProceduralParent"}

C17_WitnessParent ==
    /\ pc = "idle" /\ lastCall.op = "ClearNodes" /\ procParent # NoParent
    /\ nodes = <<>> /\ CreatedInRead # {}

\* ------------------------------------------------------------------------
\* C18
\* ------------------------------------------------------------------------
\* The transform of the element of the call is animated: its own transform
\* or that of an ancestor has more than one authored sample.
Animated(c) == Cardinality(c.samples) > 1 \/ c.parentVarying

\* The authored samples strictly inside the shutter interval of the call.
SamplesInShutter(c) ==
    {x \in c.samples : c.time.frame + c.time.motionStart < x /\ x < c.time.frame + c.time.motionEnd}

\* C18: with motion blur and an animated transform the matrix array has as
\* many keys as there are authored samples strictly inside the shutter
\* interval, plus two; whenever the array has more than one key the node's
\* motion_start and motion_end are the read's motionStart and motionEnd;
\* without motion blur or without animation the array has one key.
C18_MatrixKeys ==
    mx.out # <<>> =>
        LET set == mx.out[1]
        IN  /\ (mx.time.motionBlur /\ Animated(mx)) =>
                    Len(set.matrix) = Cardinality(SamplesInShutter(mx)) + 2
            /\ Len(set.matrix) > 1 => set.motion = <<mx.time.motionStart, mx.time.motionEnd>>
            /\ ~(mx.time.motionBlur /\ Animated(mx)) => Len(set.matrix) = 1

\* ReadMatrix has exported, for a read with motion blur, the transform of an
\* element with authored samples inside and outside the shutter interval.
C18_Witness ==
    /\ mx.out # <<>> /\ mx.time.motionBlur /\ Cardinality(mx.samples) > 1
    /\ SamplesInShutter(mx) # {} /\ SamplesInShutter(mx) # mx.samples
    /\ Len(mx.out[1].matrix) = Cardinality(SamplesInShutter(mx)) + 2
    /\ mx.out[1].motion # <<>>

\* ------------------------------------------------------------------------
\* C19
\* ------------------------------------------------------------------------
RECURSIVE AncestorsInRange(_)

\* The ancestors of an element that the traversal entered before it: those
\* from the root of the range down.
AncestorsInRange(p) ==
    IF p = root \/ p = 0 THEN {} ELSE {Parent(p)} \cup AncestorsInRange(Parent(p))

\* The ancestors that are open when the element is pre-visited and that
\* have an entry on the stack: the typed or instanceable ones.
OpenAncestors(p) == {a \in AncestorsInRange(p) : TypeName(a) # "" \/ IsInstanceable(a)}

\* The attributes an element inherits from the ancestors the traversal entered.
InheritedFromAncestors(p) == UNION {Authored(a) : a \in AncestorsInRange(p)}

\* C19: on every worker, at each pre-visit of a typed or instanceable
\* element the stack of inherited attributes has one entry per open ancestor
\* plus the initial entry, and its top is what the element inherits from its
\* ancestors; so the stack after a pruned element is what it was before, and
\* at the end of the traversal only the initial entry remains.
C19_StackDepthIsTraversalDepth ==
    \A w \in DOMAIN td :
        pc = "traverse" =>
            IF td[w].st = "traverse" /\ td[w].pos <= Len(Range)
            THEN LET e == Range[td[w].pos]
                 IN  (~e.post /\ (TypeName(e.prim) # "" \/ IsInstanceable(e.prim))) =>
                        /\ Len(td[w].ctx.pstack) = 1 + Cardinality(OpenAncestors(e.prim))
                        /\ Top(td[w].ctx.pstack) = InheritedFromAncestors(e.prim)
            ELSE Len(td[w].ctx.pstack) = 1

\* ------------------------------------------------------------------------
\* C20
\* ------------------------------------------------------------------------
\* The element, or an ancestor the traversal entered before it, is pruned.
PrunedAway(p) == \E a \in {p} \cup AncestorsInRange(p) : PruneChildren(a)

\* The typed or instanceable elements of the range that are not pruned, in
\* the order of their pre-visits.
Visited ==
    SelectSeq(Range, LAMBDA e : /\ ~e.post
                                /\ (TypeName(e.prim) # "" \/ IsInstanceable(e.prim))
                                /\ ~PrunedAway(e.prim))

\* Every worker has come to the end of the range.
TraversalOver == \A w \in DOMAIN td : td[w].pos > Len(Range)

\* C20: with more than one worker, every typed or instanceable element that
\* is not pruned is passed to ReadPrimitive by exactly one worker, once: the
\* worker for which (the element's visit index + the worker's id) is a
\* multiple of the number of workers.
C20_OneOwner ==
    Len(td) > 1 =>
        /\ \A w \in DOMAIN td : \A i \in DOMAIN td[w].read :
               \E k \in DOMAIN Visited :
                   /\ Visited[k].prim = td[w].read[i]
                   /\ ((k - 1) + td[w].threadId) % Len(td) = 0
        /\ \A w1, w2 \in DOMAIN td : \A i1 \in DOMAIN td[w1].read : \A i2 \in DOMAIN td[w2].read :
               td[w1].read[i1] = td[w2].read[i2] => (w1 = w2 /\ i1 = i2)
        /\ TraversalOver =>
               \A k \in DOMAIN Visited : \E w \in DOMAIN td : Visited[k].prim \in Elems(td[w].read)

\* Two workers have finished the traversal of a hierarchy with a pruned
\* element, each having passed an element to ReadPrimitive.
C20_Witness ==
    /\ Len(td) = 2 /\ pc = "traverse" /\ TraversalOver
    /\ \A w \in DOMAIN td : td[w].read # <<>>
    /\ \E p \in StagePrims : PruneChildren(p)

\* ------------------------------------------------------------------------
\* C21
\* ------------------------------------------------------------------------
\* The number of typed or instanceable, unpruned elements whose pre-visit
\* lies before position pos of the range.
VisitedBefore(pos) ==
    Cardinality({k \in 1..(pos - 1) : /\ k <= Len(Range)
                                      /\ ~Range[k].post
                                      /\ (TypeName(Range[k].prim) # "" \/ IsInstanceable(Range[k].prim))
                                      /\ ~PrunedAway(Range[k].prim)})

\* C21: during TRAVERSE no worker passes a pruned element or a descendant
\* of one to ReadPrimitive, and the ownership index of a worker counts the
\* unpruned elements it has come past and no pruned one.
C21_PrunedNeverRead ==
    pc = "traverse" =>
        \A w \in DOMAIN td :
            /\ \A i \in DOMAIN td[w].read : ~PrunedAway(td[w].read[i])
            /\ Len(td) > 1 => td[w].index = VisitedBefore(td[w].pos)

\* Two workers have come past a pruned element that has a descendant, and
\* one of them has read an element.
C21_Witness ==
    /\ pc = "traverse" /\ Len(td) = 2 /\ TraversalOver
    /\ \E p, q \in StagePrims : PruneChildren(p) /\ Parent(q) = p
    /\ \E w \in DOMAIN td : td[w].read # <<>>

\* ------------------------------------------------------------------------
\* C22
\* ------------------------------------------------------------------------
\* The controlling thread has returned from AiThreadWait on a traversal
\* thread and is at the statements that merge that thread's nodes into the
\* reader's node list and name table.
MergeEnabled == pc = "traverse" /\ jn < Len(td) /\ AiThreadWait(td[jn + 1].st)

\* A traversal thread, a connection thread or a dispatched job is running.
WorkerRunning ==
    \/ \E w \in DOMAIN td : td[w].st = "traverse" \/ td[w].cst = "connect"
    \/ jobs # {}

\* C22: the reader's node list and name table are written only while no
\* traversal worker or dispatched job is running, so that no worker writes
\* the node list while the controlling thread is at a write of it.
C22_AggregateWrittenAlone ==
    [][(nodes' # nodes \/ nodeNames' # nodeNames) => ~WorkerRunning]_vars

\* C22, the race alone: no worker writes the reader's node list in a state
\* in which the controlling thread is at its merge of another worker's nodes.
C22_NoWriteDuringMerge ==
    [][(nodes' # nodes /\ jn' = jn /\ pc = "traverse") => ~MergeEnabled]_vars

\* ------------------------------------------------------------------------
\* C23
\* ------------------------------------------------------------------------
\* The step is taken within the step PROCESS_CONNECTIONS of a read.
ProcessStep == readStep = "PROCESS_CONNECTIONS" /\ readStep' = "PROCESS_CONNECTIONS"

\* The step creates no node and converts no element, and leaves the reader's
\* node list and name table and every worker's node list and names alone.
CreatesNothing ==
    /\ nodes' = nodes /\ nodeNames' = nodeNames
    /\ DOMAIN ai' = DOMAIN ai /\ nextId' = nextId /\ forced' = forced
    /\ \A w \in DOMAIN td : /\ td'[w].ctx.nodes = td[w].ctx.nodes
                            /\ td'[w].ctx.names = td[w].ctx.names
                            /\ td'[w].read = td[w].read

\* No node of the universe has the name (under the reader's parent).
NoNodeNamed(name) ==
    ~\E id \in DOMAIN ai : ai[id].name = name /\ ai[id].parent \in {procParent, NoParent}

\* One of the connection's targets has no node.
TargetAbsent(c) == \E i \in DOMAIN c.target : NoNodeNamed(c.target[i])

\* One of the connection's targets is not found by LookupNode.
TargetNotFound(c) == \E i \in DOMAIN c.target : LookupNode(Env(1, "old"), c.target[i], TRUE) = Null

\* The connections a worker's pass over its pending list leaves in the list
\* are, in order and unmodified, those for which keep holds; joining the
\* worker moves what is left to the end of the dangling list.
PendingKept(keep(_)) ==
    \A w \in DOMAIN td :
        /\ (td[w].cst = "connect" /\ td'[w].cst = "done") =>
               td'[w].ctx.conns = SelectSeq(td[w].ctx.conns, keep)
        /\ (td[w].cst = "done" /\ td'[w].ctx.conns # td[w].ctx.conns) =>
               dangling' = dangling \o td[w].ctx.conns

\* C23: while the read step is PROCESS_CONNECTIONS no node is created, no
\* element converted, no node list or name table changed, and every
\* connection whose target has no node is kept, unmodified, in its worker's
\* list and goes from there to the dangling list.
C23_ProcessKeepsAbsent ==
    [][ProcessStep => (CreatesNothing /\ PendingKept(TargetAbsent))]_vars

\* C23 with "absent" read as "not found by LookupNode": holds, stale entries
\* of the name table included.
C23_ProcessKeepsNotFound ==
    [][ProcessStep => (CreatesNothing /\ PendingKept(TargetNotFound))]_vars

\* A worker has kept a connection in PROCESS_CONNECTIONS and been joined.
C23_Witness ==
    /\ readStep = "PROCESS_CONNECTIONS" /\ dangling # <<>>
    /\ \E w \in DOMAIN td : td[w].cst = "done"

\* ------------------------------------------------------------------------
\* C24
\* ------------------------------------------------------------------------
\* The connection is in some worker's pending list or in the dangling list.
Pending(c) ==
    \/ c \in Elems(dangling)
    \/ \E w \in DOMAIN td : c \in Elems(td[w].ctx.conns)

\* C24: over a read each connection is applied at most once: no connection
\* has a second application, and a connection applied in PROCESS_CONNECTIONS
\* is in no worker's pending list and not in the dangling list.
C24_AppliedAtMostOnce ==
    \A a \in applied :
        /\ a.n = 1
        /\ a.step = "PROCESS_CONNECTIONS" => ~Pending(a.conn)

\* The dangling pass is over; it applied a connection of the dangling list
\* and, on the way, connections of the elements it converted.
C24_Witness ==
    /\ pc = "dangling" /\ dpos > Len(dangling)
    /\ \E a \in applied : a.conn \in Elems(dangling) /\ a.step = "DANGLING_CONNECTIONS"
    /\ Cardinality(applied) >= 3

\* ------------------------------------------------------------------------
\* C25
\* ------------------------------------------------------------------------
\* The step is the join of a connection thread.
JoinStep == pc = "process" /\ jn' # jn

\* The step is one iteration of the loop over the dangling connections.
DanglingStep == pc = "dangling" /\ dpos' # dpos /\ pc' # "idle"

\* The connections the step applied.
AppliedNow == {a.conn : a \in applied' \ applied}

\* The target of the connection the dangling loop has just come past is not
\* found.
LastNotFound == TargetNotFound(dangling[dpos - 1])

\* One of the connection's targets is not found and is no element of the
\* stage, so that no conversion can be forced for it.
TargetUnknown(c) ==
    \E i \in DOMAIN c.target : /\ LookupNode(Env(1, "old"), c.target[i], TRUE) = Null
                                /\ GetPrimAtPath(c.target[i]) = 0

\* C25: the dangling list is the workers' unresolved connections in the
\* order of the workers; the dangling pass runs while no worker or job runs
\* and hands the connections of the list to ProcessConnection one by one in
\* the order of the list, each once: the connection at the loop's position
\* is applied by the step, or its target is still not found after the step
\* has forced a conversion or because it is no element of the stage; no
\* other connection of the list is applied by the step, and the list itself
\* is left alone.
C25_DanglingInOrder ==
    [][/\ JoinStep => (jn' = jn + 1 /\ dangling' = dangling \o td[jn + 1].ctx.conns)
       /\ DanglingStep =>
            /\ ~WorkerRunning /\ ~WorkerRunning'
            /\ dpos' = dpos + 1 /\ dangling' = dangling
            /\ \/ dangling[dpos] \in AppliedNow
               \/ LastNotFound' /\ (forced' # forced \/ TargetUnknown(dangling[dpos]))
            /\ \A i \in DOMAIN dangling :
                   (i # dpos /\ dangling[i] # dangling[dpos]) => dangling[i] \notin AppliedNow
            /\ \A a \in applied : a.conn # dangling[dpos]]_vars

\* The dangling pass has applied both connections of a dangling list that
\* two workers contributed to.
C25_Witness ==
    /\ pc = "dangling" /\ dpos > Len(dangling) /\ Len(td) = 2 /\ Len(dangling) = 2
    /\ dangling[1].sourceNode # dangling[2].sourceNode
    /\ \A i \in DOMAIN dangling : \E a \in applied : a.conn = dangling[i]

\* ------------------------------------------------------------------------
\* C26
\* ------------------------------------------------------------------------
\* The ReadPrimitive calls the step forced on element p.
ForcedNow(p) == {i \in (Len(forced) + 1)..Len(forced') : forced'[i].prim = p}

\* C26: for one connection of the dangling list whose target has no node,
\* ReadPrimitive is forced on the target element at most once; a target that
\* has no node after that is not converted a second time.
C26_ForcedAtMostOnce ==
    [][(DanglingStep /\ Len(dangling[dpos].target) = 1) =>
            Cardinality(ForcedNow(GetPrimAtPath(dangling[dpos].target[1]))) <= 1]_vars

\* ------------------------------------------------------------------------
\* C27
\* ------------------------------------------------------------------------
\* The connection is a Link whose target is explicitly null.
NullLink(c) == c.type = "LINK" /\ c.target = <<"">>

\* The dangling pass of the read is over.
DanglingOver == pc = "dangling" /\ dpos > Len(dangling)

\* C27: a Link connection whose target is explicitly null leaves its source
\* attribute unlinked once the connections of the read have been processed.
C27_NullLinkUnlinks ==
    DanglingOver =>
        \A c \in registered :
            NullLink(c) => /\ <<c.sourceNode, c.sourceAttr>> \in DOMAIN links
                           /\ links[<<c.sourceNode, c.sourceAttr>>].kind = "unlinked"

\* No connection is ever applied as an unlink: ProcessConnection returns
\* false for every absent target before it looks at the connection's type.
C27_NeverUnlinks == \A k \in DOMAIN links : links[k].kind # "unlinked"

\* ------------------------------------------------------------------------
\* C28
\* ------------------------------------------------------------------------
\* The step is taken by a worker or a job within the step TRAVERSE.
TraverseStep == readStep = "TRAVERSE" /\ readStep' = "TRAVERSE" /\ Len(td') = Len(td)

\* The connections AddConnection stored in the step.
RegisteredNow == registered' \ registered

\* The workers whose pending list the step changed.
Appended == {w \in DOMAIN td : td'[w].ctx.conns # td[w].ctx.conns}

\* The connection the converter of a node of the current read passes to
\* AddConnection, as a set: empty when the element has no input.
InputOf(id) ==
    LET p == ai[id].prim
    IN  IF ai[id].by # "converter" THEN {}
        ELSE IF p = 2 /\ doc.subsets = <<>> /\ doc.shader # ""
        THEN {Connection(id, "shader", <<doc.shader>>, "PTR", <<>>)}
        ELSE IF p = 3 /\ doc.matInput # ""
        THEN {Connection(id, "base_color", <<LinkTarget(doc.matInput)>>, "LINK", <<>>)}
        ELSE IF p = 4 /\ doc.texInput # ""
        THEN {Connection(id, "multiply", <<doc.texInput>>, "LINK", <<>>)}
        ELSE {}

\* ProcessConnection has been run on the connection in the dangling step: it
\* is applied, or its target is not found although its conversion was forced
\* or because it is no element of the stage.
Processed(c) ==
    \/ \E a \in applied : a.conn = c /\ a.step = "DANGLING_CONNECTIONS"
    \/ /\ TargetNotFound(c)
       /\ \/ TargetUnknown(c)
          \/ \E i \in DOMAIN forced : forced[i].prim = GetPrimAtPath(c.target[1])

\* The connections of the nodes converted in the dangling step are in no
\* pending list and have been processed.
DanglingAdds ==
    readStep = "DANGLING_CONNECTIONS" =>
        \A id \in DOMAIN ai :
            (id >= cur.firstId /\ ai[id].step = "DANGLING_CONNECTIONS") =>
                \A c \in InputOf(id) : ~Pending(c) /\ c \notin registered /\ Processed(c)

\* C28: in the step TRAVERSE each AddConnection appends its connection, and
\* nothing else, to the pending list of the calling worker, and neither
\* applies a connection nor sets the source attribute; in the step
\* DANGLING_CONNECTIONS it appends nothing and the connection has been
\* processed when the call returns.
C28_AddConnectionByStep ==
    [][/\ TraverseStep =>
            /\ applied' = applied
            /\ Cardinality(Appended) = Cardinality(RegisteredNow)
            /\ \A w \in Appended : \E c \in RegisteredNow :
                   td'[w].ctx.conns = Append(td[w].ctx.conns, c)
            /\ \A c \in RegisteredNow : <<c.sourceNode, c.sourceAttr>> \notin DOMAIN links'
       /\ DanglingAdds'
       /\ (readStep = "DANGLING_CONNECTIONS" /\ readStep' = readStep) =>
            (registered' = registered /\ Appended = {})]_vars

\* The traversal has stored a connection, and the dangling pass has converted
\* an element whose connection was applied on the spot.
C28_Witness ==
    /\ readStep = "DANGLING_CONNECTIONS" /\ registered # {}
    /\ \E id \in DOMAIN ai :
           /\ id >= cur.firstId /\ ai[id].step = "DANGLING_CONNECTIONS"
           /\ \E c \in InputOf(id) : \E a \in applied : a.conn = c

\* ------------------------------------------------------------------------
\* C29
\* ------------------------------------------------------------------------
\* The nodes CreateArnoldNode has created in the current read.
CreatedByContext == {id \in DOMAIN ai : id >= cur.firstId} \ DefaultShaderNodes

\* How often the node is in the node lists of the contexts and of the reader.
TimesListed(id) ==
    Cardinality({i \in DOMAIN nodes : nodes[i] = id})
    + Cardinality({x \in (DOMAIN td) \X (1..nextId) :
                       x[2] \in DOMAIN td[x[1]].ctx.nodes /\ td[x[1]].ctx.nodes[x[2]] = id})

\* C29 as stated: with a thread count other than 1 the creation lock is held
\* both when the node is created and when it is appended to the node list.
C29_CreatedUnderLock ==
    (InRead /\ threadCount # 1) =>
        \A id \in CreatedByContext : "createNode" \in ai[id].held /\ "createNode" \in ai[id].listed

\* C29, amended: the node is created with no lock of the context held; it
\* is appended to the context's list under the creation lock exactly when
\* the thread count is 0 (the context has a dispatcher), under no lock
\* otherwise; each call creates one node and the node is in one list, once.
C29_AppendUnderLock ==
    InRead =>
        \A id \in CreatedByContext :
            /\ ai[id].held = {}
            /\ ai[id].listed = (IF threadCount = 0 THEN {"createNode"} ELSE {})
            /\ TimesListed(id) = 1

\* Two jobs of a read with thread count 0 have created a node each on the
\* one context, and a job is still to run.
C29_Witness ==
    /\ InRead /\ threadCount = 0 /\ jobs # {}
    /\ \E a, b \in CreatedByContext :
           a # b /\ ai[a].via = "job" /\ ai[b].via = "job" /\ ai[a].listed = {"createNode"}

\* ------------------------------------------------------------------------
\* C30
\* ------------------------------------------------------------------------
\* The three locks of a thread context.
ContextLocks == {"createNode", "addConnection", "addNodeName"}

\* C30: no two of the three locks of a thread context are ever held
\* together, each is released before the function that entered it returns,
\* and with thread count 1 none of them is entered.
C30_LocksNeverNested ==
    InRead =>
        /\ \A w \in DOMAIN td : td[w].ctx.maxHeld <= 1 /\ td[w].ctx.held = {}
        /\ threadCount = 1 => (locked \cap ContextLocks = {} /\ \A w \in DOMAIN td : td[w].ctx.maxHeld = 0)

\* In a read with thread count 0 all three locks of the context have been
\* entered, one at a time.
C30_Witness ==
    /\ InRead /\ threadCount = 0
    /\ ContextLocks \subseteq locked
    /\ td[1].ctx.maxHeld = 1

\* ------------------------------------------------------------------------
\* C31
\* ------------------------------------------------------------------------
\* The element has a converter that the mask lets through.
Convertible(p) == GetPrimReader(TypeName(p)) # "" /\ GetPrimReader(TypeName(p)) \in mask

\* The nodes created in the dangling step of the current read.
CreatedInDangling ==
    {id \in DOMAIN ai : id >= cur.firstId /\ ai[id].step = "DANGLING_CONNECTIONS"}

\* C31: once the read step has left TRAVERSE the reader has no dispatcher
\* and no job is pending; every node of the dangling step is created on the
\* controlling thread and by no job, and every convertible element whose
\* conversion was forced has its node when the forcing step is over.
C31_DanglingInline ==
    (InRead /\ readStep # "TRAVERSE") =>
        /\ ~dispatcher /\ jobs = {}
        /\ \A id \in CreatedInDangling : ai[id].via = "direct"
        /\ \A i \in DOMAIN forced :
               Convertible(forced[i].prim) =>
                   \E id \in DOMAIN ai : id >= cur.firstId /\ ai[id].prim = forced[i].prim

\* A read with thread count 0, whose traversal ran jobs, has converted an
\* element in the dangling step.
C31_Witness ==
    /\ InRead /\ threadCount = 0 /\ readStep = "DANGLING_CONNECTIONS"
    /\ \E id \in DOMAIN ai : id >= cur.firstId /\ ai[id].via = "job"
    /\ \E id \in CreatedInDangling : ai[id].by = "converter"

\* ------------------------------------------------------------------------
\* C32
\* ------------------------------------------------------------------------
\* The proxy nodes the current read has created for instance elements.
Proxies == {id \in DOMAIN ai : id >= cur.firstId /\ ai[id].type = "ginstance"}

\* What C32 says of proxy id; free tells when the prototype counts as
\* having no node.
ProxyAsClaimed(id, free(_)) ==
    LET p == ai[id].prim
        c == Connection(id, "node", <<Path(GetPrototype(p))>>, "PTR", <<>>)
    IN  /\ IsInstanceable(p) /\ GetPrototype(p) \in StagePrims
        /\ ai[id].name = Path(p) /\ ai[id].step = "TRAVERSE"
        /\ \A o \in Proxies : ai[o].prim = p => o = id
        /\ c \in registered
        /\ \A r \in registered : r.sourceNode = id => r = c
        /\ readStep \in {"TRAVERSE", "PROCESS_CONNECTIONS"} => free(GetPrototype(p))

\* The current read has created no node named by the element's path, and a
\* reader without procedural parent finds no node of that name at all.
NotCreatedYet(p) ==
    /\ \A o \in DOMAIN ai : o >= cur.firstId => ai[o].name # Path(p)
    /\ procParent = NoParent => NoNodeNamed(Path(p))

NoNodeOf(p) == NoNodeNamed(Path(p))

\* C32 as stated: ReadPrimitive on an instance element with a prototype
\* creates one proxy node named by the instance's path, during TRAVERSE, and
\* registers one Pointer connection from the proxy's attribute "node" to the
\* path of the prototype and no other connection; until the dangling step
\* no node named by the prototype's path exists.
C32_InstanceProxy == InRead => \A id \in Proxies : ProxyAsClaimed(id, NoNodeOf)

\* C32, amended: as stated, but until the dangling step it is the current
\* read that has created no node for the prototype; under a procedural
\* parent the node an earlier read created for it may still exist.
C32_InstanceProxyThisRead == InRead => \A id \in Proxies : ProxyAsClaimed(id, NotCreatedYet)

\* The traversal of a re-read under a procedural parent has created the
\* proxy of an instance and no node for the prototype, whose node of the
\* earlier read is still in the universe.
C32_Witness ==
    /\ readStep = "PROCESS_CONNECTIONS" /\ Proxies # {} /\ procParent = ProcNode
    /\ \A id \in Proxies : /\ NotCreatedYet(GetPrototype(ai[id].prim))
                           /\ ~NoNodeOf(GetPrototype(ai[id].prim))

\* ------------------------------------------------------------------------
\* C33
\* ------------------------------------------------------------------------
\* The connection is a Pointer to the path of a prototype of the stage.
ToPrototype(c) ==
    /\ c.type = "PTR" /\ Len(c.target) = 1
    /\ GetPrimAtPath(c.target[1]) # 0 /\ IsPrototype(GetPrimAtPath(c.target[1]))

\* The nested procedurals the current read has created under the name.
ProceduralsNamed(name) ==
    {id \in DOMAIN ai : id >= cur.firstId /\ ai[id].type = "usd" /\ ai[id].name = name}

\* C33: a Pointer connection of the dangling list to a prototype is applied
\* by the dangling pass, to a nested procedural named by the prototype's
\* path, restricted to that path and with visibility 0; the read creates at
\* most one such node per prototype, in the dangling step, and every
\* connection to the prototype is applied to the same node.
C33_OneNestedProcedural ==
    InRead =>
        /\ \A i \in DOMAIN dangling :
               (i < dpos /\ ToPrototype(dangling[i])) => \E a \in applied : a.conn = dangling[i]
        /\ \A a \in applied :
               ToPrototype(a.conn) =>
                   /\ Len(a.to) = 1 /\ a.to[1] \in DOMAIN ai
                   /\ ai[a.to[1]].type = "usd" /\ ai[a.to[1]].name = a.conn.target[1]
                   /\ ai[a.to[1]].params # <<>>
                   /\ ai[a.to[1]].params.object_path = a.conn.target[1]
                   /\ ai[a.to[1]].params.visibility = 0
                   /\ \A b \in applied : b.conn.target = a.conn.target => b.to = a.to
        /\ \A p \in StagePrims :
               /\ Cardinality(ProceduralsNamed(Path(p))) <= 1
               /\ \A id \in ProceduralsNamed(Path(p)) :
                      IsPrototype(p) /\ ai[id].step = "DANGLING_CONNECTIONS"

\* The dangling pass has applied the connections of two instances of one
\* prototype to the one nested procedural it created.
C33_Witness ==
    /\ pc = "dangling" /\ dpos > Len(dangling)
    /\ \E a, b \in applied :
           /\ a.conn # b.conn /\ ToPrototype(a.conn) /\ b.conn.target = a.conn.target
           /\ a.to = b.to /\ a.to[1] \in ProceduralsNamed(a.conn.target[1])

\* ------------------------------------------------------------------------
\* C34
\* ------------------------------------------------------------------------
\* The step is a call of one of the reads.
ReadCallStep == calls' = calls + 1 /\ lastCall'.op \in {"Read", "ReadCache"}

\* The root path the read of the step is called with.
CalledPath == lastCall.args[Len(lastCall.args)]

\* The time settings with the motion blur window of the shutter <<open, close>>.
WithShutter(t, cam) ==
    [t EXCEPT !.motionBlur = cam[2] > cam[1], !.motionStart = cam[1], !.motionEnd = cam[2]]

\* C34 as stated: a read called with a non-empty root path leaves the time
\* settings as the caller set them.
C34_SubtreeReadKeepsTime == [][(ReadCallStep /\ CalledPath' # "") => time' = time]_vars

\* C34, amended: a read replaces the motion blur window by the shutter of
\* the camera that /options names exactly when it starts the traversal (the
\* stage is open and the root path, empty or not, is valid) and the reader
\* has no procedural parent; a read with a procedural parent, a read that
\* returns early and every step of a read after its start leave the time
\* settings alone.
C34_ShutterReadWithoutParent ==
    [][/\ ReadCallStep =>
              time' = IF /\ pc' = "traverse" /\ procParent = NoParent
                         /\ RenderCamera(stage') # <<>>
                      THEN WithShutter(time, RenderCamera(stage'))
                      ELSE time
       /\ InRead => time' = time]_vars

\* A read of the sub-hierarchy under a non-empty root path, by a reader
\* without procedural parent, has replaced the caller's motion blur window by
\* the camera's shutter.
C34_Witness ==
    /\ InRead /\ cur.path # "" /\ cur.procParent = NoParent
    /\ RenderCamera(stage) # <<>>
    /\ cur.timeIn # time /\ time = WithShutter(cur.timeIn, RenderCamera(stage))

\* ------------------------------------------------------------------------
\* C35
\* ------------------------------------------------------------------------
\* In the step, traversal thread w called ReadPrimitive for an element.
ReadsElement(w) ==
    /\ pc = "traverse" /\ pc' = "traverse" /\ td[w].st = "traverse"
    /\ Len(td'[w].read) = Len(td[w].read) + 1

\* The element thread w called ReadPrimitive for last.
LastRead(w) == td[w].read[Len(td[w].read)]

\* The transform array of element p under the time settings of the read.
MatrixOf(p) ==
    ReadMatrixArray([time |-> cur.time, samples |-> XformSamples(p), parentVarying |-> FALSE,
                     hasMatrices |-> FALSE, out |-> <<>>])

\* The nodes the step creates.
NewNodes == {id \in DOMAIN ai' : id \notin DOMAIN ai}

\* C35: when ReadPrimitive is called for an element that is no instance and
\* has a converter the mask allows, then with a dispatcher it converts
\* nothing and submits one new job, whose context holds the element's
\* transform array and the top of the thread's stack of inherited
\* attributes, and without a dispatcher it runs the converter inline and
\* submits nothing; no other call submits a job, no thread is given an
\* element twice, and a job that runs converts its element with the
\* attributes of its context.
C35_JobPerElement ==
    [][/\ \A w \in DOMAIN td :
              ReadsElement(w) =>
                  IF Convertible(LastRead(w)') /\ ~IsInstanceable(LastRead(w)')
                  THEN IF dispatcher
                       THEN /\ NewNodes = {}
                            /\ Cardinality(jobs') = Cardinality(jobs) + 1
                            /\ \A j \in jobs' \ jobs :
                                   /\ j.prim = LastRead(w)'
                                   /\ j.matrix = MatrixOf(j.prim)
                                   /\ j.pv = Top(td'[w].ctx.pstack)
                       ELSE /\ jobs' = jobs
                            /\ \E id \in NewNodes :
                                   /\ ai'[id].prim = LastRead(w)' /\ ai'[id].by = "converter"
                                   /\ ai'[id].via = "direct"
                  ELSE jobs' = jobs
       /\ (InRead /\ pc' # "idle") =>
              /\ \A w \in DOMAIN td' :
                     \A i, k \in DOMAIN td'[w].read : td'[w].read[i] = td'[w].read[k] => i = k
              /\ jobs' \subseteq jobs \/ \E w \in DOMAIN td : ReadsElement(w)
              /\ jobs' # jobs /\ jobs' \subseteq jobs =>
                     /\ Cardinality(jobs \ jobs') = 1
                     /\ \A j \in jobs \ jobs' :
                            \E id \in NewNodes :
                                /\ ai'[id].prim = j.prim /\ ai'[id].pv = j.pv
                                /\ ai'[id].via = "job" /\ ai'[id].by = "converter"]_vars

\* A traversal with a dispatcher has submitted a job whose context holds an
\* array of more than one key and a non-empty set of inherited attributes.
C35_Witness ==
    /\ pc = "traverse" /\ dispatcher
    /\ \E j \in jobs : Len(j.matrix) > 1 /\ j.pv # {} /\ j.pv = FindPrimvarsWithInheritance(j.prim)

\* ------------------------------------------------------------------------
\* C36
\* ------------------------------------------------------------------------
\* The nodes in the reader's node list.
Listed == {nodes[i] : i \in DOMAIN nodes}

\* C36: between the calls, every entry of the reader's name table maps to a
\* node of the reader's node list, so that LookupNode returns no node that an
\* earlier read created and ClearNodes has since cleared.
C36_NamesAreListed ==
    pc = "idle" => \A name \in DOMAIN nodeNames : nodeNames[name] \in Listed

\* ------------------------------------------------------------------------
\* C37
\* ------------------------------------------------------------------------
\* The step is the end of the read: the merge after the dangling loop, when
\* the dangling list is not empty, and the return.
FinishStep == pc = "dangling" /\ pc' = "idle"

\* What the end of the read leaves in the lists of worker w: the first
\* worker's node list and name table are emptied by the merge after the
\* dangling loop, which runs when the dangling list is not empty.
LeftNodes(w) == IF w = 1 /\ dangling # <<>> THEN <<>> ELSE td[w].ctx.nodes

LeftNames(w) == IF w = 1 /\ dangling # <<>> THEN EmptyMap ELSE td[w].ctx.names

\* The number of places of the reader's node list that hold the node.
PlacesInList(id) == Cardinality({i \in DOMAIN nodes : nodes[i] = id})

\* The end of the read leaves every worker's node list, name table and
\* connection list empty.
C37_WorkersEmpty ==
    [][FinishStep =>
           \A w \in DOMAIN td :
               /\ LeftNodes(w) = <<>> /\ LeftNames(w) = EmptyMap /\ td[w].ctx.conns = <<>>]_vars

\* C37: when a read ends, every worker's node list, name table and
\* connection list are empty, and every node the read created during TRAVERSE
\* or DANGLING_CONNECTIONS is in the reader's node list exactly once.
C37_AllNodesListedOnce ==
    [][FinishStep =>
           /\ \A w \in DOMAIN td :
                  /\ LeftNodes(w) = <<>> /\ LeftNames(w) = EmptyMap /\ td[w].ctx.conns = <<>>
           /\ \A id \in DOMAIN ai' :
                  (id >= cur.firstId /\ ai'[id].step \in {"TRAVERSE", "DANGLING_CONNECTIONS"}) =>
                      PlacesInList(id)' = 1]_vars

\* ------------------------------------------------------------------------
\* C38
\* ------------------------------------------------------------------------
\* C38: the converter of an element that the dangling pass materializes is
\* given the element's own full set of inherited attributes by GetPrimvars,
\* whatever the thread count.
C38_ForcedSeesOwnInherited ==
    \A id \in DOMAIN ai :
        (ai[id].step = "DANGLING_CONNECTIONS" /\ ai[id].by = "converter") =>
            ai[id].pv = FindPrimvarsWithInheritance(ai[id].prim)

\* ------------------------------------------------------------------------
\* C39
\* ------------------------------------------------------------------------
\* C39: whenever a read has returned, on success or early, the reader holds
\* no stage, and after Read(filename, overrides, path) the stored filename is
\* empty and the stored overrides pointer is null.
C39_NothingHeldAfterRead ==
    pc = "idle" =>
        /\ stage = NullPtr
        /\ lastCall.op = "Read" => (filename = "" /\ overrides = NullPtr)

\* ------------------------------------------------------------------------
\* C40
\* ------------------------------------------------------------------------
\* The step is a call of AddConnection from outside the reader.
AddConnectionStep == calls' = calls + 1 /\ lastCall'.op = "AddConnection"

\* C40: a call of AddConnection while the read step is NOT_STARTED,
\* PROCESS_CONNECTIONS or FINISHED stores nothing and resolves nothing: the
\* pending lists of the workers, the dangling list, the nodes of the
\* universe and their attributes are as before the call; a call in the
\* steps TRAVERSE and DANGLING_CONNECTIONS stores or processes the
\* connection.
C40_IgnoredOutsideTraversal ==
    [][AddConnectionStep =>
           IF readStep \in {"NOT_STARTED", "PROCESS_CONNECTIONS", "FINISHED"}
           THEN /\ td' = td /\ dangling' = dangling /\ registered' = registered
                /\ applied' = applied /\ forced' = forced
                /\ ai' = ai /\ links' = links /\ nodes' = nodes /\ nodeNames' = nodeNames
           ELSE \/ \E w \in DOMAIN td : Len(td'[w].ctx.conns) = Len(td[w].ctx.conns) + 1
                \/ readStep = "DANGLING_CONNECTIONS"]_vars

\* AddConnection was called in the step PROCESS_CONNECTIONS on a worker
\* whose pending list is not empty, and the lists hold no connection of the
\* caller's.
C40_Witness ==
    /\ pc = "process" /\ lastCall.op = "AddConnection" /\ lastCall.args[1] = "PROCESS_CONNECTIONS"
    /\ td[lastCall.args[2]].ctx.conns # <<>>
    /\ \A w \in DOMAIN td :
           \A i \in DOMAIN td[w].ctx.conns : td[w].ctx.conns[i].sourceAttr # "emission"

====
